---- MODULE Spec2Model ----
(***************************************************************************)
(* Patent Status Tracker: the local store (src/src/database.py), the       *)
(* reconciliation engine and the scheduler (src/src/polling.py) and the    *)
(* parts of the remote client the engine parses (src/src/uspto_api.py).    *)
(*                                                                         *)
(* A table is the sequence of its rows in rowid order (AUTOINCREMENT ids   *)
(* only grow, so insertion order is id order).  A nullable column holds    *)
(* <<>> for NULL and <<v>> for the value v.                                *)
(***************************************************************************)
EXTENDS Integers, Sequences, FiniteSets, TLC

VARIABLES
    patents,        \* table patents: set of rows
    events,         \* table events
    continuity,     \* table continuity
    documents,      \* table documents
    assignments,    \* table assignments
    settings,       \* table settings: key -> <<>> | <<value>>
    seq_patents,    \* sqlite_sequence of patents: the largest id ever given
    locked,         \* the database file is write-locked by an abandoned connection
    now,            \* the wall clock (datetime.now(), CURRENT_TIMESTAMP)
    running,        \* PollingService._running
    thread,         \* PollingService._thread: <<>> (None) or <<loop thread>>
    pc,             \* where each thread is
    upd,            \* locals of _update_patent_from_api, per thread
    poll,           \* locals of poll_now, per thread
    wait,           \* _poll_loop: sleep increments done of the interval wait
    last,           \* the last call the UI thread made: op, arguments, result
    calls,          \* calls the UI thread has made while threads run
    interval_minutes,   \* PollingService._interval_minutes
    api_key,        \* the credential vault's entry: <<>> (None) or <<key>>
    schema,         \* sqlite_master: the tables, the indexes, the columns of patents
    on_update,      \* PollingService._on_update: TRUE when a callback is set
    on_error,       \* PollingService._on_error: TRUE when a callback is set
    notified        \* per loop thread: the callback invocations of its iteration

store == <<patents, events, continuity, documents, assignments, settings,
          seq_patents, locked>>
service == <<running, thread, wait, calls, interval_minutes>>
hooks == <<on_update, on_error, notified>>
vars == <<patents, events, continuity, documents, assignments, settings,
          seq_patents, locked, now, running, thread, pc, upd, poll, wait, last, calls,
          interval_minutes, api_key, schema, on_update, on_error, notified>>

(***************************************************************************)
(* Bounds of the model.                                                    *)
(***************************************************************************)
MaxTime == 1        \* the last instant of the clock
MaxEvents == 2      \* event facts in one application response
MaxRows == 3        \* rows of the events table, and of the documents table
MaxCalls == 4       \* calls of the UI thread in a run with concurrent threads
IntervalSeconds == 2    \* the 60 seconds of one minute of interval, scaled down
DefaultInterval == 1    \* the interval of a new service (60 * 24), scaled down

(***************************************************************************)
(* Threads: the Tk main thread, the one-shot refresh thread of             *)
(* _on_refresh_click, and the background threads start() creates.          *)
(***************************************************************************)
LoopThreads == {"loop1", "loop2"}
Threads == {"main", "refresh"} \cup LoopThreads

(***************************************************************************)
(* Values.                                                                 *)
(***************************************************************************)
Range(s) == {s[i] : i \in 1..Len(s)}

SeqsUpTo(S, n) == UNION {[1..k -> S] : k \in 0..n}

\* A normalization that leaves the commas in.
normalize_app_number_keeps_commas(app_number) ==
    SelectSeq(app_number, LAMBDA ch : ch \notin {"/", " "})

\* str.replace("/", "").replace(" ", "").replace(",", "")
normalize_app_number(app_number) ==
    SelectSeq(app_number, LAMBDA ch : ch \notin {"/", " ", ","})

\* A display format that puts a dash where the slash goes.
format_app_number_dashed(app_number) ==
    LET app_num == normalize_app_number(app_number)
    IN IF Len(app_num) >= 8
       THEN SubSeq(app_num, 1, 2) \o <<"-">> \o SubSeq(app_num, 3, 5)
                \o <<",">> \o SubSeq(app_num, 6, Len(app_num))
       ELSE app_num

\* f"{app_num[:2]}/{app_num[2:5]},{app_num[5:]}" from 8 characters on
format_app_number(app_number) ==
    LET app_num == normalize_app_number(app_number)
    IN IF Len(app_num) >= 8
       THEN SubSeq(app_num, 1, 2) \o <<"/">> \o SubSeq(app_num, 3, 5)
                \o <<",">> \o SubSeq(app_num, 6, Len(app_num))
       ELSE app_num

Endpoints == {"application", "adjustment", "continuity", "documents",
              "assignment", "attorney", "foreign_priority"}
OptionalEndpoints == Endpoints \ {"application"}

\* The columns of patents that update_patent may set ("title" stands for the
\* application metadata columns, which one response sets together).
allowed_fields == {"title", "filing_date", "last_checked", "pta_total_days",
                   "expiration_date", "assignment_bag", "attorney_bag",
                   "foreign_priority_bag"}

NullColumns == [c \in allowed_fields |-> <<>>]

(***************************************************************************)
(* The store: src/src/database.py.  Each operation opens its own           *)
(* connection, runs one transaction and commits, so it is one atomic step. *)
(*                                                                         *)
(* save_continuity, save_documents and save_assignments close their        *)
(* connection only on the way out of a successful call.  When an INSERT    *)
(* raises, the connection is abandoned with its transaction open, and the  *)
(* database file stays write-locked until the interpreter reclaims the     *)
(* connection object: at once where reference counts free it, at some      *)
(* later collection where it sits in a reference cycle.  A write by        *)
(* another connection finds the lock released, or waits out the busy       *)
(* timeout of sqlite3.connect (5 seconds) and raises OperationalError.     *)
(***************************************************************************)
\* What a write may find: FALSE, the lock is free; TRUE, still held.
Busy == IF locked THEN {FALSE, TRUE} ELSE {FALSE}

PatentRows(app_num) == {p \in patents : p.application_number = app_num}
PatentIds == {p.id : p \in patents}

\* Text order of the normalized application numbers (digit strings).
CharRank(ch) == CASE ch = "1" -> 1 [] ch = "2" -> 2 [] ch = "3" -> 3 [] OTHER -> 0

RECURSIVE TextLeq(_, _)
TextLeq(a, b) ==
    IF a = <<>> THEN TRUE
    ELSE IF b = <<>> THEN FALSE
    ELSE IF a[1] = b[1] THEN TextLeq(Tail(a), Tail(b))
    ELSE CharRank(a[1]) < CharRank(b[1])

\* SELECT * FROM patents ORDER BY application_number
RECURSIVE SortByAppNumber(_)
SortByAppNumber(S) ==
    IF S = {} THEN <<>>
    ELSE LET p == CHOOSE x \in S : \A y \in S :
                      TextLeq(x.application_number, y.application_number)
         IN <<p>> \o SortByAppNumber(S \ {p})

get_all_patents == SortByAppNumber(patents)

\* SELECT * FROM patents WHERE application_number = ?: the row, or None.
get_patent_by_app_number(application_number) ==
    LET rows == PatentRows(normalize_app_number(application_number))
    IN IF rows = {} THEN <<>> ELSE <<CHOOSE p \in rows : TRUE>>

\* INSERT INTO patents (application_number): UNIQUE(application_number)
\* raises IntegrityError, which add_patent turns into None (<<>>).
add_patent_result(application_number) ==
    LET app_num == normalize_app_number(application_number)
    IN IF PatentRows(app_num) # {} THEN <<>> ELSE <<seq_patents + 1>>

add_patent_db(application_number) ==
    LET app_num == normalize_app_number(application_number)
    IN IF PatentRows(app_num) # {}
       THEN UNCHANGED <<patents, seq_patents>>
       ELSE /\ patents' = patents \cup
                   {[id |-> seq_patents + 1, application_number |-> app_num,
                     created_at |-> now, cols |-> NullColumns]}
            /\ seq_patents' = seq_patents + 1

\* DELETE FROM <table> WHERE patent_id = ?
DeleteOf(tbl, patent_id) == SelectSeq(tbl, LAMBDA r : r.patent_id # patent_id)

\* A removal of the patent row alone, its dependents left behind.
remove_patent_db_record_only(application_number) ==
    LET app_num == normalize_app_number(application_number)
    IN /\ patents' = patents \ PatentRows(app_num)
       /\ UNCHANGED <<events, continuity, documents, assignments>>

\* remove_patent: the dependents first, then the patent row.
remove_patent_db(application_number) ==
    LET app_num == normalize_app_number(application_number)
        rows == PatentRows(app_num)
    IN IF rows = {}
       THEN UNCHANGED <<patents, events, continuity, documents, assignments>>
       ELSE LET patent_id == (CHOOSE p \in rows : TRUE).id
            IN /\ events' = DeleteOf(events, patent_id)
               /\ continuity' = DeleteOf(continuity, patent_id)
               /\ documents' = DeleteOf(documents, patent_id)
               /\ assignments' = DeleteOf(assignments, patent_id)
               /\ patents' = patents \ rows

\* update_patent(application_number, **kwargs): kwargs is a function from
\* field names to values; names outside allowed_fields are dropped.
ApplyFields(cols, kwargs) ==
    [c \in allowed_fields |->
        IF c \in DOMAIN kwargs THEN <<kwargs[c]>> ELSE cols[c]]

\* An update that creates the row when no record has the number.
update_patent_db_upsert(application_number, kwargs) ==
    LET app_num == normalize_app_number(application_number)
    IN IF \E p \in patents : p.application_number = app_num
       THEN {IF p.application_number = app_num
             THEN [p EXCEPT !.cols = ApplyFields(p.cols, kwargs)]
             ELSE p : p \in patents}
       ELSE patents \cup
               {[id |-> seq_patents + 1, application_number |-> app_num,
                 created_at |-> now, cols |-> ApplyFields(NullColumns, kwargs)]}

\* Every name of allowed_fields matches re.fullmatch(r"[a-z_]+", key), so
\* the names that are applied are those of allowed_fields; with none of
\* them among the kwargs there is no UPDATE and no commit.
update_patent_db(application_number, kwargs) ==
    LET app_num == normalize_app_number(application_number)
    IN IF DOMAIN kwargs \cap allowed_fields = {}
       THEN patents
       ELSE {IF p.application_number = app_num
             THEN [p EXCEPT !.cols = ApplyFields(p.cols, kwargs)]
             ELSE p : p \in patents}

\* An add_event whose INSERT is not held to the foreign key (a connection
\* without PRAGMA foreign_keys = ON).
add_event_ok_without_foreign_key(patent_id, event_code, event_date) ==
    \/ event_date = <<>>
    \/ SelectSeq(events, LAMBDA e : /\ e.patent_id = patent_id
                                    /\ e.event_code = event_code
                                    /\ e.event_date = event_date) = <<>>

\* The rows of events with the key UNIQUE(patent_id, event_code, event_date).
EventKeyRows(tbl, patent_id, event_code, event_date) ==
    SelectSeq(tbl, LAMBDA e : /\ e.patent_id = patent_id
                              /\ e.event_code = event_code
                              /\ e.event_date = event_date)

\* add_event: the INSERT fails with IntegrityError on the UNIQUE key and on
\* the foreign key patent_id -> patents(id); add_event then returns False.
\* event_date is <<>> (None, SQL NULL) or <<text>>: the column is nullable,
\* and a NULL is distinct from every value of a UNIQUE index, itself included.
add_event_ok(patent_id, event_code, event_date) ==
    /\ patent_id \in PatentIds
    /\ \/ event_date = <<>>
       \/ EventKeyRows(events, patent_id, event_code, event_date) = <<>>

\* An INSERT OR REPLACE: the row that has the key gives way to a new one.
add_event_db_or_replace(patent_id, event_code, event_description, event_date) ==
    IF patent_id \in PatentIds
    THEN Append(SelectSeq(events,
                    LAMBDA e : ~(/\ e.patent_id = patent_id
                                 /\ e.event_code = event_code
                                 /\ e.event_date = event_date
                                 /\ event_date # <<>>)),
                [patent_id |-> patent_id, event_code |-> event_code,
                 event_description |-> event_description,
                 event_date |-> event_date,
                 first_seen |-> now, is_new |-> 1])
    ELSE events

add_event_db(patent_id, event_code, event_description, event_date) ==
    IF add_event_ok(patent_id, event_code, event_date)
    THEN Append(events, [patent_id |-> patent_id, event_code |-> event_code,
                         event_description |-> event_description,
                         event_date |-> event_date,
                         first_seen |-> now, is_new |-> 1])
    ELSE events

\* An UPDATE events SET is_new = 0 that has no WHERE clause.
mark_events_seen_db_every_record(patent_id) ==
    [i \in 1..Len(events) |-> [events[i] EXCEPT !.is_new = 0]]

\* UPDATE events SET is_new = 0 WHERE patent_id = ?
mark_events_seen_db(patent_id) ==
    [i \in 1..Len(events) |->
        IF events[i].patent_id = patent_id
        THEN [events[i] EXCEPT !.is_new = 0] ELSE events[i]]

(***************************************************************************)
(* Snapshot tables.                                                        *)
(***************************************************************************)
HasDuplicates(s) == \E i, j \in 1..Len(s) : i < j /\ s[i] = s[j]

ContinuityRows(patent_id, parents, children) ==
    [i \in 1..Len(parents) |->
        [patent_id |-> patent_id, relationship_type |-> "parent",
         related_app_number |-> parents[i]]]
    \o [i \in 1..Len(children) |->
        [patent_id |-> patent_id, relationship_type |-> "child",
         related_app_number |-> children[i]]]

\* save_continuity: DELETE, then one INSERT per parent and per child, in one
\* transaction.  An INSERT that breaks UNIQUE(patent_id, relationship_type,
\* related_app_number) or the foreign key raises IntegrityError before the
\* commit, and the connection is dropped with the transaction rolled back.
save_continuity_raises(patent_id, parents, children) ==
    /\ parents \o children # <<>>
    /\ \/ patent_id \notin PatentIds
       \/ HasDuplicates(parents)
       \/ HasDuplicates(children)

\* save_continuity with every statement committed as it runs: the DELETE
\* stays when a later INSERT raises.
save_continuity_db_autocommit(patent_id, parents, children) ==
    IF save_continuity_raises(patent_id, parents, children)
    THEN DeleteOf(continuity, patent_id)
    ELSE DeleteOf(continuity, patent_id) \o ContinuityRows(patent_id, parents, children)

save_continuity_db(patent_id, parents, children) ==
    IF save_continuity_raises(patent_id, parents, children)
    THEN continuity
    ELSE DeleteOf(continuity, patent_id) \o ContinuityRows(patent_id, parents, children)

\* save_documents: INSERT OR REPLACE per document on
\* UNIQUE(patent_id, document_identifier); nothing is deleted first.  The
\* identifier is <<>> (None, SQL NULL) or <<text>>; a NULL conflicts with no
\* row, so the document is added.
save_documents_raises(patent_id, docs) ==
    docs # <<>> /\ patent_id \notin PatentIds

RECURSIVE UpsertDocuments(_, _, _)
UpsertDocuments(tbl, patent_id, docs) ==
    IF docs = <<>> THEN tbl
    ELSE LET doc == Head(docs)
             kept == SelectSeq(tbl, LAMBDA r :
                        ~(r.patent_id = patent_id
                          /\ doc.document_id # <<>>
                          /\ r.document_identifier = doc.document_id))
         IN UpsertDocuments(
                Append(kept, [patent_id |-> patent_id,
                              document_identifier |-> doc.document_id,
                              document_code |-> doc.document_code]),
                patent_id, Tail(docs))

save_documents_db(patent_id, docs) ==
    IF save_documents_raises(patent_id, docs)
    THEN documents
    ELSE UpsertDocuments(documents, patent_id, docs)

\* save_assignments: DELETE, then one INSERT per assignment.
save_assignments_raises(patent_id, assigns) ==
    assigns # <<>> /\ patent_id \notin PatentIds

save_assignments_db(patent_id, assigns) ==
    IF save_assignments_raises(patent_id, assigns)
    THEN assignments
    ELSE DeleteOf(assignments, patent_id)
         \o [i \in 1..Len(assigns) |->
                [patent_id |-> patent_id, reel_frame |-> assigns[i].reel_frame]]

\* get_setting(key, default)
get_setting(key, default) ==
    IF settings[key] = <<>> THEN default ELSE settings[key][1]

(***************************************************************************)
(* The remote client: src/src/uspto_api.py.  An HTTP response is           *)
(* [status, shape, body]: shape "bad" is a 200 whose JSON is not of the    *)
(* expected shape (the code then fails with AttributeError or TypeError).  *)
(* A fetch returns [exc, data]: exc "" and the data, or the exception.     *)
(***************************************************************************)
Ok(body) == [status |-> 200, shape |-> "ok", body |-> <<body>>]
Status(code) == [status |-> code, shape |-> "ok", body |-> <<>>]
Malformed == [status |-> 200, shape |-> "bad", body |-> <<>>]

\* What requests.get gives when it is never called.
NoRequest == [status |-> 0, shape |-> "none", body |-> <<>>]

\* What the vault may hold: nothing, or a key.
ApiKeys == {<<>>, <<"k">>}

\* credentials.get_api_key
get_api_key == api_key

\* A request that is made whether or not a key is stored.
Answers_without_key(responses) == responses

\* _get_headers is evaluated for the arguments of requests.get: with no key
\* (None or "") it raises, and the request is not made.
Answers(responses) ==
    IF get_api_key = <<>> \/ get_api_key = <<"">> THEN {NoRequest}
    ELSE responses

Returned(data) == [exc |-> "", data |-> <<data>>]
Raised(exc) == [exc |-> exc, data |-> <<>>]

\* fetch_application: 401, 404, any other non-200 and count == 0 raise
\* USPTOApiError.
fetch_application(resp) ==
    IF resp = NoRequest THEN Raised("USPTOApiError")
    ELSE IF resp.status # 200 THEN Raised("USPTOApiError")
    ELSE IF resp.shape = "bad" THEN Raised("Exception")
    ELSE IF resp.body[1].count = 0 THEN Raised("USPTOApiError")
    ELSE Returned(resp.body[1])

\* parse_application_data: None (<<>>) when patentFileWrapperDataBag is
\* missing or empty, else the metadata and events of its first wrapper.
parse_application_data(raw_data) ==
    LET bag == raw_data.patentFileWrapperDataBag
    IN IF bag = <<>> THEN <<>>
       ELSE LET wrapper == bag[1]
            IN <<[metadata |->
                    [title |-> wrapper.applicationMetaData.inventionTitle,
                     filing_date |-> wrapper.applicationMetaData.filingDate],
                  events |->
                    [i \in 1..Len(wrapper.eventDataBag) |->
                        [event_code |-> wrapper.eventDataBag[i].eventCode,
                         event_description |->
                            wrapper.eventDataBag[i].eventDescriptionText,
                         event_date |-> wrapper.eventDataBag[i].eventDate]]]>>

\* The six optional fetches: 404 is the endpoint's empty payload, any other
\* non-200 raises USPTOApiError.
\* An optional fetch for which not-found is an error like any other status.
FetchOptional_not_found_raises(resp, empty) ==
    IF resp = NoRequest THEN Raised("USPTOApiError")
    ELSE IF resp.status # 200 THEN Raised("USPTOApiError")
    ELSE IF resp.shape = "bad" THEN Raised("Exception")
    ELSE Returned(resp.body[1])

FetchOptional(resp, empty) ==
    IF resp = NoRequest THEN Raised("USPTOApiError")
    ELSE IF resp.status = 404 THEN Returned(empty)
    ELSE IF resp.status # 200 THEN Raised("USPTOApiError")
    ELSE IF resp.shape = "bad" THEN Raised("Exception")
    ELSE Returned(resp.body[1])

\* An empty dict is <<>>, a dict with the quantity is <<quantity>>.
fetch_adjustment(resp) == FetchOptional(resp, <<>>)

parse_adjustment_data(raw_data) ==
    IF raw_data = <<>> THEN <<>>
    ELSE <<[pta_total_days |-> raw_data[1]]>>

fetch_continuity(resp) ==
    FetchOptional(resp, [parentContinuityBag |-> <<>>, childContinuityBag |-> <<>>])

parse_continuity_data(raw_data) ==
    [parents |-> raw_data.parentContinuityBag,
     children |-> raw_data.childContinuityBag]

fetch_documents(resp) == FetchOptional(resp, [documentBag |-> <<>>])

parse_documents_data(raw_data) ==
    [i \in 1..Len(raw_data.documentBag) |->
        [document_id |-> raw_data.documentBag[i].documentIdentifier,
         document_code |-> raw_data.documentBag[i].documentCode]]

fetch_assignment(resp) == FetchOptional(resp, [patentAssignmentBag |-> <<>>])

parse_assignment_data(raw_data) ==
    [i \in 1..Len(raw_data.patentAssignmentBag) |->
        [reel_frame |-> raw_data.patentAssignmentBag[i].reelAndFrameNumber]]

\* json.dumps(x): the serialized text of x.
json_dumps(x) == <<"json", x>>

fetch_attorney(resp) == FetchOptional(resp, <<>>)

\* json.dumps(raw_data) if raw_data else '[]'
parse_attorney_data(raw_data) ==
    IF raw_data = <<>> THEN json_dumps(<<>>) ELSE json_dumps(raw_data)

fetch_foreign_priority(resp) == FetchOptional(resp, [foreignPriorityBag |-> <<>>])

parse_foreign_priority_data(raw_data) == json_dumps(raw_data.foreignPriorityBag)

\* Dates are <<year, month, day>>; '' (and a missing date) is <<>>.
IsLeap(y) == (y % 4 = 0 /\ y % 100 # 0) \/ y % 400 = 0

DaysInMonth(y, m) ==
    IF m = 2 THEN (IF IsLeap(y) THEN 29 ELSE 28)
    ELSE IF m \in {4, 6, 9, 11} THEN 30 ELSE 31

NextDay(d) ==
    IF d[3] < DaysInMonth(d[1], d[2]) THEN <<d[1], d[2], d[3] + 1>>
    ELSE IF d[2] < 12 THEN <<d[1], d[2] + 1, 1>>
    ELSE <<d[1] + 1, 1, 1>>

PrevDay(d) ==
    IF d[3] > 1 THEN <<d[1], d[2], d[3] - 1>>
    ELSE IF d[2] > 1 THEN <<d[1], d[2] - 1, DaysInMonth(d[1], d[2] - 1)>>
    ELSE <<d[1] - 1, 12, 31>>

\* d + timedelta(days=n), within the years a datetime holds
RECURSIVE AddDays(_, _)
AddDays(d, n) ==
    IF n = 0 THEN d
    ELSE IF n > 0 THEN AddDays(NextDay(d), n - 1)
    ELSE AddDays(PrevDay(d), n + 1)

\* datetime.strptime(text, '%Y-%m-%d'): <<the date>>, or <<>> for ValueError.
\* A text is the sequence of the numbers between its dashes.
strptime(text) ==
    IF /\ Len(text) = 3
       /\ text[1] \in 1..9999
       /\ text[2] \in 1..12
       /\ text[3] \in 1..DaysInMonth(text[1], text[2])
    THEN <<text>> ELSE <<>>

\* An anniversary that rolls 29 February over to 1 March.
calculate_expiration_date_rolls_over(filing_date, pta_days) ==
    IF strptime(filing_date) = <<>> THEN <<>>
    ELSE LET y == filing_date[1] + 20
         IN AddDays(IF filing_date[3] <= DaysInMonth(y, filing_date[2])
                    THEN <<y, filing_date[2], filing_date[3]>>
                    ELSE <<y, 3, 1>>, pta_days)

\* calculate_expiration_date: filing + 20 years (29 February clamped to the
\* 28th when the target year is not a leap year) + pta_days; '' (<<>>) when
\* there is no filing date and when strptime or replace raises ValueError.
calculate_expiration_date(filing_date, pta_days) ==
    IF filing_date = <<>> THEN <<>>
    ELSE IF strptime(filing_date) = <<>> THEN <<>>
    ELSE LET filing == strptime(filing_date)[1]
             y == filing[1] + 20
             anniversary ==
                IF filing[3] <= DaysInMonth(y, filing[2])
                THEN <<y, filing[2], filing[3]>>
                ELSE <<y, filing[2], 28>>
         IN IF y > 9999 THEN <<>>
            ELSE AddDays(anniversary, pta_days)

(***************************************************************************)
(* The reconciliation engine: _update_patent_from_api, src/src/polling.py. *)
(* One step per remote fetch (with the parse and the store call that       *)
(* follow it in the same try block) and one per store call after them.     *)
(* An action's `responses` is the set of responses the remote may give.    *)
(***************************************************************************)
EmptyFields == [c \in {} |-> <<>>]

NoUpdate ==
    [status |-> "none", patent_id |-> 0, app_num |-> <<>>, metadata |-> <<>>,
     events |-> <<>>, update_fields |-> EmptyFields, fetched |-> {},
     failed |-> {}, i |-> 0, new_events |-> <<>>, exc |-> "", writes |-> 0,
     payload |-> EmptyFields]

BeginUpdate(patent_id, app_num) ==
    [NoUpdate EXCEPT !.status = "running", !.patent_id = patent_id,
                     !.app_num = app_num]

NoPoll ==
    [status |-> "none", patents |-> <<>>, i |-> 0, delay_seconds |-> 0,
     success |-> TRUE, new_events |-> <<>>, errors |-> <<>>,
     updated_patents |-> 0, sleeps |-> 0]

InPoll(t) == poll[t].status = "running"

\* An exception that ends the batch: the for loop of poll_now is left at
\* the first failure.
Raise_ends_batch(t, exc) ==
    /\ upd' = [upd EXCEPT ![t] = NoUpdate]
    /\ IF InPoll(t)
       THEN /\ poll' = [poll EXCEPT ![t] =
                   [@ EXCEPT !.errors = Append(@,
                        [application_number |->
                            poll[t].patents[poll[t].i].application_number,
                         unexpected |-> exc # "USPTOApiError"]),
                             !.i = Len(poll[t].patents)]]
            /\ pc' = [pc EXCEPT ![t] = "poll_next"]
            /\ UNCHANGED last
       ELSE /\ pc' = [pc EXCEPT ![t] = "idle"]
            /\ last' = [op |-> "refresh_single_patent",
                        args |-> <<upd[t].app_num>>, result |-> <<"raise", exc>>]
            /\ UNCHANGED poll

\* The exception leaves _update_patent_from_api.  In poll_now the except
\* clauses append "<application_number>: ..." to result['errors'] and the
\* for loop goes on; refresh_single_patent lets it reach its caller.
Raise(t, exc) ==
    /\ upd' = [upd EXCEPT ![t] = NoUpdate]
    /\ IF InPoll(t)
       THEN /\ poll' = [poll EXCEPT ![t].errors = Append(@,
                        [application_number |->
                            poll[t].patents[poll[t].i].application_number,
                         unexpected |-> exc # "USPTOApiError"])]
            /\ pc' = [pc EXCEPT ![t] = "poll_next"]
            /\ UNCHANGED last
       ELSE /\ pc' = [pc EXCEPT ![t] = "idle"]
            /\ last' = [op |-> "refresh_single_patent",
                        args |-> <<upd[t].app_num>>, result |-> <<"raise", exc>>]
            /\ UNCHANGED poll

\* The required endpoint handled as the optional ones are: a failure is
\* logged and the synchronization goes on.
FetchApplication_swallowed(t, responses) ==
    /\ pc[t] = "fetch_application"
    /\ \E resp \in Answers(responses) :
        LET r == fetch_application(resp)
            parsed == IF r.exc = "" THEN parse_application_data(r.data[1]) ELSE <<>>
        IN /\ upd' = [upd EXCEPT ![t] =
                  [@ EXCEPT !.fetched = @ \cup {"application"},
                            !.failed = IF parsed = <<>>
                                       THEN @ \cup {"application"} ELSE @,
                            !.metadata = IF parsed = <<>> THEN <<>>
                                         ELSE <<parsed[1].metadata>>,
                            !.events = IF parsed = <<>> THEN <<>>
                                       ELSE parsed[1].events,
                            !.update_fields =
                               IF parsed = <<>> THEN "last_checked" :> now
                               ELSE ("last_checked" :> now) @@ parsed[1].metadata]]
           /\ pc' = [pc EXCEPT ![t] = "fetch_adjustment"]
           /\ UNCHANGED <<poll, last>>
    /\ UNCHANGED <<store, now, api_key, schema, hooks, service>>

\* lines 51-60
FetchApplication(t, responses) ==
    /\ pc[t] = "fetch_application"
    /\ \E resp \in Answers(responses) :
        LET r == fetch_application(resp)
            parsed == IF r.exc = "" THEN parse_application_data(r.data[1]) ELSE <<>>
            exc == IF r.exc # "" THEN r.exc
                   ELSE IF parsed = <<>> THEN "ValueError" ELSE ""
            fetched == upd[t].fetched \cup {"application"}
        IN IF exc # ""
           THEN Raise(t, exc)
           ELSE /\ upd' = [upd EXCEPT ![t] =
                       [@ EXCEPT !.fetched = fetched,
                                 !.metadata = <<parsed[1].metadata>>,
                                 !.events = parsed[1].events,
                                 !.update_fields =
                                    ("last_checked" :> now) @@ parsed[1].metadata]]
                /\ pc' = [pc EXCEPT ![t] = "fetch_adjustment"]
                /\ UNCHANGED <<poll, last>>
    /\ UNCHANGED <<store, now, api_key, schema, hooks, service>>

\* What an optional try block leaves in the locals: the endpoint is fetched,
\* it failed when the fetch, the parse or the store call raised; `got` is
\* <<>>, or <<the parsed payload>> when the fetch and the parse succeeded.
AfterOptional(t, endpoint, raised, fields, next, got) ==
    /\ upd' = [upd EXCEPT ![t] =
           [@ EXCEPT !.fetched = @ \cup {endpoint},
                     !.failed = IF raised THEN @ \cup {endpoint} ELSE @,
                     !.update_fields = fields,
                     !.payload = IF got = <<>> THEN @
                                 ELSE (endpoint :> got[1]) @@ @]]
    /\ pc' = [pc EXCEPT ![t] = next]
    /\ UNCHANGED <<poll, last>>

\* A term-adjustment block that merges an empty expiration date when it has
\* no adjustment data.
FetchAdjustment_clears_expiration(t, responses) ==
    /\ pc[t] = "fetch_adjustment"
    /\ \E resp \in Answers(responses) :
        LET r == fetch_adjustment(resp)
            pta == IF r.exc = "" THEN parse_adjustment_data(r.data[1]) ELSE <<>>
            fields == IF pta = <<>>
                      THEN ("expiration_date" :> <<>>) @@ upd[t].update_fields
                      ELSE ("expiration_date" :>
                               calculate_expiration_date(
                                   upd[t].metadata[1].filing_date,
                                   pta[1].pta_total_days))
                           @@ pta[1] @@ upd[t].update_fields
        IN AfterOptional(t, "adjustment", r.exc # "", fields, "fetch_continuity",
                         IF r.exc = "" THEN <<pta>> ELSE <<>>)
    /\ UNCHANGED <<store, now, api_key, schema, hooks, service>>

\* lines 62-76
FetchAdjustment(t, responses) ==
    /\ pc[t] = "fetch_adjustment"
    /\ \E resp \in Answers(responses) :
        LET r == fetch_adjustment(resp)
            pta == IF r.exc = "" THEN parse_adjustment_data(r.data[1]) ELSE <<>>
            expiration ==
                IF pta = <<>> THEN <<>>
                ELSE calculate_expiration_date(upd[t].metadata[1].filing_date,
                                               pta[1].pta_total_days)
            fields == IF pta = <<>> THEN upd[t].update_fields
                      ELSE ("expiration_date" :> expiration) @@ pta[1]
                           @@ upd[t].update_fields
        IN AfterOptional(t, "adjustment", r.exc # "", fields, "fetch_continuity",
                         IF r.exc = "" THEN <<pta>> ELSE <<>>)
    /\ UNCHANGED <<store, now, api_key, schema, hooks, service>>

\* lines 78-86
FetchContinuity(t, responses) ==
    /\ pc[t] = "fetch_continuity"
    /\ \E resp \in Answers(responses), busy \in Busy :
        LET r == fetch_continuity(resp)
            c == IF r.exc = "" THEN parse_continuity_data(r.data[1])
                 ELSE [parents |-> <<>>, children |-> <<>>]
            writes == r.exc = ""
            crash == writes /\ (busy \/ save_continuity_raises(upd[t].patent_id,
                                                          c.parents, c.children))
        IN /\ busy => writes
           /\ continuity' = IF writes /\ ~busy
                            THEN save_continuity_db(upd[t].patent_id,
                                                    c.parents, c.children)
                            ELSE continuity
           /\ locked' = IF writes THEN crash ELSE locked
           /\ AfterOptional(t, "continuity", r.exc # "" \/ crash,
                            upd[t].update_fields, "fetch_documents",
                            IF r.exc = "" THEN <<c>> ELSE <<>>)
    /\ UNCHANGED <<patents, events, documents, assignments, settings,
                   seq_patents, now, api_key, schema, hooks, service>>

\* lines 88-96: save_documents writes when there is a document.  The
\* documents table holds at most MaxRows rows, as the events table does.
FetchDocuments(t, responses) ==
    /\ pc[t] = "fetch_documents"
    /\ \E resp \in Answers(responses), busy \in Busy :
        LET r == fetch_documents(resp)
            docs == IF r.exc = "" THEN parse_documents_data(r.data[1]) ELSE <<>>
            writes == r.exc = "" /\ docs # <<>>
            crash == writes /\ (busy \/ save_documents_raises(upd[t].patent_id, docs))
        IN /\ busy => writes
           /\ Len(save_documents_db(upd[t].patent_id, docs)) <= MaxRows
           /\ documents' = IF writes /\ ~busy
                           THEN save_documents_db(upd[t].patent_id, docs)
                           ELSE documents
           /\ locked' = IF writes THEN crash ELSE locked
           /\ AfterOptional(t, "documents", r.exc # "" \/ crash,
                            upd[t].update_fields, "fetch_assignment",
                            IF r.exc = "" THEN <<docs>> ELSE <<>>)
    /\ UNCHANGED <<patents, events, continuity, assignments, settings,
                   seq_patents, now, api_key, schema, hooks, service>>

\* lines 98-107
FetchAssignment(t, responses) ==
    /\ pc[t] = "fetch_assignment"
    /\ \E resp \in Answers(responses), busy \in Busy :
        LET r == fetch_assignment(resp)
            assigns == IF r.exc = "" THEN parse_assignment_data(r.data[1]) ELSE <<>>
            writes == r.exc = ""
            crash == writes /\ (busy \/ save_assignments_raises(upd[t].patent_id,
                                                                assigns))
            fields == IF r.exc = "" /\ ~crash
                      THEN ("assignment_bag" :> json_dumps(assigns))
                           @@ upd[t].update_fields
                      ELSE upd[t].update_fields
        IN /\ busy => writes
           /\ assignments' = IF writes /\ ~busy
                             THEN save_assignments_db(upd[t].patent_id, assigns)
                             ELSE assignments
           /\ locked' = IF writes THEN crash ELSE locked
           /\ AfterOptional(t, "assignment", r.exc # "" \/ crash, fields,
                            "fetch_attorney",
                            IF r.exc = "" THEN <<assigns>> ELSE <<>>)
    /\ UNCHANGED <<patents, events, continuity, documents, settings,
                   seq_patents, now, api_key, schema, hooks, service>>

\* lines 109-117
FetchAttorney(t, responses) ==
    /\ pc[t] = "fetch_attorney"
    /\ \E resp \in Answers(responses) :
        LET r == fetch_attorney(resp)
            fields == IF r.exc = ""
                      THEN ("attorney_bag" :> parse_attorney_data(r.data[1]))
                           @@ upd[t].update_fields
                      ELSE upd[t].update_fields
        IN AfterOptional(t, "attorney", r.exc # "", fields,
                         "fetch_foreign_priority",
                         IF r.exc = "" THEN <<parse_attorney_data(r.data[1])>>
                         ELSE <<>>)
    /\ UNCHANGED <<store, now, api_key, schema, hooks, service>>

\* lines 119-127
FetchForeignPriority(t, responses) ==
    /\ pc[t] = "fetch_foreign_priority"
    /\ \E resp \in Answers(responses) :
        LET r == fetch_foreign_priority(resp)
            fields == IF r.exc = ""
                      THEN ("foreign_priority_bag" :>
                                parse_foreign_priority_data(r.data[1]))
                           @@ upd[t].update_fields
                      ELSE upd[t].update_fields
        IN AfterOptional(t, "foreign_priority", r.exc # "", fields, "update_patent",
                         IF r.exc = ""
                         THEN <<parse_foreign_priority_data(r.data[1])>>
                         ELSE <<>>)
    /\ UNCHANGED <<store, now, api_key, schema, hooks, service>>

\* A record write that carries the required metadata and the check time
\* alone, without the fields the optional blocks merged in.
UpdatePatent_metadata_only(t) ==
    /\ pc[t] = "update_patent"
    /\ \E busy \in Busy :
        IF busy
        THEN /\ Raise(t, "OperationalError")
             /\ UNCHANGED <<patents, locked>>
        ELSE /\ patents' = update_patent_db(upd[t].app_num,
                               ("last_checked" :> upd[t].update_fields.last_checked)
                               @@ upd[t].metadata[1])
             /\ locked' = FALSE
             /\ upd' = [upd EXCEPT ![t].writes = @ + 1]
             /\ pc' = [pc EXCEPT ![t] = "add_event"]
             /\ UNCHANGED <<poll, last>>
    /\ UNCHANGED <<events, continuity, documents, assignments, settings,
                   seq_patents, now, api_key, schema, hooks, service>>

\* lines 129-130: the single consolidated update; an OperationalError
\* leaves _update_patent_from_api
UpdatePatent(t) ==
    /\ pc[t] = "update_patent"
    /\ \E busy \in Busy :
        IF busy
        THEN /\ Raise(t, "OperationalError")
             /\ UNCHANGED <<patents, locked>>
        ELSE /\ patents' = update_patent_db(upd[t].app_num, upd[t].update_fields)
             /\ locked' = FALSE
             /\ upd' = [upd EXCEPT ![t].writes = @ + 1]
             /\ pc' = [pc EXCEPT ![t] = "add_event"]
             /\ UNCHANGED <<poll, last>>
    /\ UNCHANGED <<events, continuity, documents, assignments, settings,
                   seq_patents, now, api_key, schema, hooks, service>>

\* lines 132-142: one pass of the for loop over parsed["events"].  The
\* events table holds at most MaxRows rows: rows with a NULL date pile up
\* without limit otherwise.
AddEvent(t) ==
    /\ pc[t] = "add_event"
    /\ upd[t].i < Len(upd[t].events)
    /\ \E busy \in Busy :
        LET event == upd[t].events[upd[t].i + 1]
            is_new == add_event_ok(upd[t].patent_id, event.event_code,
                                   event.event_date)
        IN IF busy
           THEN /\ Raise(t, "OperationalError")
                /\ UNCHANGED <<events, locked>>
           ELSE /\ is_new => Len(events) < MaxRows
                /\ events' = add_event_db(upd[t].patent_id, event.event_code,
                                          event.event_description, event.event_date)
                /\ locked' = FALSE
                /\ upd' = [upd EXCEPT ![t] =
                       [@ EXCEPT !.i = @ + 1,
                                 !.new_events = IF is_new THEN Append(@, event)
                                                ELSE @]]
                /\ UNCHANGED <<pc, poll, last>>
    /\ UNCHANGED <<patents, continuity, documents, assignments, settings,
                   seq_patents, now, api_key, schema, hooks, service>>

\* lines 144-148, and what the caller does with the result: poll_now
\* (lines 245-259) collects the new events and goes to its sleep.
Return(t) ==
    /\ pc[t] = "add_event"
    /\ upd[t].i = Len(upd[t].events)
    /\ upd' = [upd EXCEPT ![t] = NoUpdate]
    /\ IF InPoll(t)
       THEN /\ poll' = [poll EXCEPT ![t] =
                   [@ EXCEPT !.updated_patents =
                                 IF upd[t].new_events # <<>> THEN @ + 1 ELSE @,
                             !.new_events = @ \o
                                 [k \in 1..Len(upd[t].new_events) |->
                                    [application_number |-> upd[t].app_num,
                                     title |-> upd[t].metadata[1].title,
                                     event |-> upd[t].new_events[k]]]]]
            /\ pc' = [pc EXCEPT ![t] = "poll_sleep"]
            /\ UNCHANGED last
       ELSE /\ pc' = [pc EXCEPT ![t] = "idle"]
            /\ last' = [op |-> "refresh_single_patent",
                        args |-> <<upd[t].app_num>>,
                        result |-> <<"return", upd[t].new_events,
                                     Len(upd[t].events)>>]
            /\ UNCHANGED poll
    /\ UNCHANGED <<store, now, api_key, schema, hooks, service>>

(***************************************************************************)
(* PollingService.poll_now, src/src/polling.py lines 214-271.              *)
(***************************************************************************)
\* float(get_setting("poll_delay_seconds", "1.0") or "1.0"), ValueError
\* giving 1.0; the delay is kept in tenths of a second.
DefaultDelay == 10

ParseFloat(text) ==
    CASE text = "1.0" -> <<10>>
      [] text = "2.5" -> <<25>>
      [] text = "0" -> <<0>>
      [] OTHER -> <<>>

delay_seconds_setting ==
    LET text == get_setting("poll_delay_seconds", "1.0")
        value == ParseFloat(IF text = "" THEN "1.0" ELSE text)
    IN IF value = <<>> THEN DefaultDelay ELSE value[1]

\* lines 227-238
PollStart(t) ==
    /\ pc[t] = "poll_now"
    /\ poll' = [poll EXCEPT ![t] =
           [NoPoll EXCEPT !.status = "running",
                          !.patents =
                              [k \in 1..Len(get_all_patents) |->
                                 [id |-> get_all_patents[k].id,
                                  application_number |->
                                     get_all_patents[k].application_number]],
                          !.delay_seconds = delay_seconds_setting]]
    /\ pc' = [pc EXCEPT ![t] = "poll_next"]
    /\ UNCHANGED <<store, now, api_key, schema, hooks, service, upd, last>>

\* lines 240-244: the for loop takes the next patent and calls
\* _update_patent_from_api
PollNext(t) ==
    /\ pc[t] = "poll_next"
    /\ poll[t].i < Len(poll[t].patents)
    /\ LET patent == poll[t].patents[poll[t].i + 1]
       IN upd' = [upd EXCEPT ![t] =
                     BeginUpdate(patent.id, patent.application_number)]
    /\ poll' = [poll EXCEPT ![t].i = @ + 1]
    /\ pc' = [pc EXCEPT ![t] = "fetch_application"]
    /\ UNCHANGED <<store, now, api_key, schema, hooks, service, last>>

\* line 259: time.sleep(delay_seconds), reached only when the update returned
PollSleep(t) ==
    /\ pc[t] = "poll_sleep"
    /\ poll' = [poll EXCEPT ![t].sleeps = @ + 1]
    /\ pc' = [pc EXCEPT ![t] = "poll_next"]
    /\ UNCHANGED <<store, now, api_key, schema, hooks, service, upd, last>>

\* A poll_now that gives up its batch once the flag _running is down.
PollFinish_at_flag_down(t) ==
    /\ pc[t] = "poll_next"
    /\ poll[t].i = Len(poll[t].patents) \/ ~running
    /\ IF t \in LoopThreads
       THEN /\ poll' = [poll EXCEPT ![t] =
                   [@ EXCEPT !.status = "done",
                             !.success = IF poll[t].errors # <<>>
                                         THEN Len(poll[t].errors)
                                                 < Len(poll[t].patents)
                                         ELSE TRUE]]
            /\ pc' = [pc EXCEPT ![t] = "callbacks"]
            /\ UNCHANGED last
       ELSE /\ poll' = [poll EXCEPT ![t] = NoPoll]
            /\ pc' = [pc EXCEPT ![t] = "idle"]
            /\ last' = [op |-> "poll_now",
                        args |-> <<Len(poll[t].patents), poll[t].sleeps>>,
                        result |-> <<[success |-> TRUE,
                                      new_events |-> poll[t].new_events,
                                      errors |-> poll[t].errors,
                                      updated_patents |-> poll[t].updated_patents]>>]
    /\ UNCHANGED <<store, now, api_key, schema, hooks, service, upd>>

\* A success flag that any error entry clears.
poll_success_without_errors(errors, patents_list) == errors = <<>>

poll_success(errors, patents_list) ==
    IF errors # <<>> THEN Len(errors) < Len(patents_list) ELSE TRUE

PollResult(p) ==
    [success |-> poll_success(p.errors, p.patents), new_events |-> p.new_events,
     errors |-> p.errors, updated_patents |-> p.updated_patents]

\* lines 266-271: the loop is over and poll_now returns its result.  The
\* refresh thread hands it to the UI (_refresh_complete) and ends; the
\* background loop goes on to its callbacks with it.
PollFinish(t) ==
    /\ pc[t] = "poll_next"
    /\ poll[t].i = Len(poll[t].patents)
    /\ IF t \in LoopThreads
       THEN /\ poll' = [poll EXCEPT ![t] =
                   [@ EXCEPT !.status = "done",
                             !.success = poll_success(poll[t].errors,
                                                      poll[t].patents)]]
            /\ pc' = [pc EXCEPT ![t] = "callbacks"]
            /\ UNCHANGED last
       ELSE /\ poll' = [poll EXCEPT ![t] = NoPoll]
            /\ pc' = [pc EXCEPT ![t] = "idle"]
            /\ last' = [op |-> "poll_now",
                        args |-> <<Len(poll[t].patents), poll[t].sleeps>>,
                        result |-> <<PollResult(poll[t])>>]
    /\ UNCHANGED <<store, now, api_key, schema, hooks, service, upd>>

(***************************************************************************)
(* What the UI thread calls: src/src/ui.py and the store functions.        *)
(***************************************************************************)
NoSyncInFlight == \A t \in Threads : upd[t].status # "running" /\ ~InPoll(t)

\* db.add_patent (ui.py line 941)
AddPatent(raws, max_id) ==
    /\ pc["main"] = "idle"
    /\ seq_patents < max_id
    /\ \E raw \in raws, busy \in Busy :
        IF busy
        THEN /\ last' = [op |-> "add_patent", args |-> <<raw>>,
                         result |-> <<"raise", "OperationalError">>]
             /\ UNCHANGED <<patents, seq_patents, locked>>
        ELSE /\ add_patent_db(raw)
             /\ locked' = FALSE
             /\ last' = [op |-> "add_patent", args |-> <<raw>>,
                         result |-> add_patent_result(raw)]
    /\ UNCHANGED <<events, continuity, documents, assignments, settings,
                   now, api_key, schema, hooks, running, thread, wait, interval_minutes, pc, upd, poll>>

\* db.remove_patent (ui.py line 1002): it writes when the SELECT finds a row
RemovePatent(raws) ==
    /\ pc["main"] = "idle"
    /\ \E raw \in raws, busy \in Busy :
        LET found == PatentRows(normalize_app_number(raw)) # {}
        IN IF busy
           THEN /\ found
                /\ last' = [op |-> "remove_patent", args |-> <<raw>>,
                            result |-> <<"raise", "OperationalError">>]
                /\ UNCHANGED <<patents, events, continuity, documents,
                               assignments, locked>>
           ELSE /\ remove_patent_db(raw)
                /\ locked' = IF found THEN FALSE ELSE locked
                /\ last' = [op |-> "remove_patent", args |-> <<raw>>,
                            result |-> <<found>>]
    /\ UNCHANGED <<settings, seq_patents, now, api_key, schema, hooks, running, thread, wait, interval_minutes, pc, upd, poll>>

\* db.update_patent called directly (ui.py line 947) with the number as its
\* positional argument and any kwargs.  A keyword application_number is the
\* parameter a second time: the call raises TypeError before the body runs.
\* The body writes when a name of allowed_fields is among the kwargs.
UpdatePatentCall(raws, kwargs_set) ==
    /\ pc["main"] = "idle"
    /\ \E raw \in raws, kwargs \in kwargs_set, busy \in Busy :
        LET writes == DOMAIN kwargs \cap allowed_fields # {}
        IN IF "application_number" \in DOMAIN kwargs
           THEN /\ ~busy
                /\ last' = [op |-> "update_patent", args |-> <<raw, kwargs>>,
                            result |-> <<"raise", "TypeError">>]
                /\ UNCHANGED <<patents, locked>>
           ELSE IF busy
           THEN /\ writes
                /\ last' = [op |-> "update_patent", args |-> <<raw, kwargs>>,
                            result |-> <<"raise", "OperationalError">>]
                /\ UNCHANGED <<patents, locked>>
           ELSE /\ patents' = update_patent_db(raw, kwargs)
                /\ locked' = IF writes THEN FALSE ELSE locked
                /\ last' = [op |-> "update_patent", args |-> <<raw, kwargs>>,
                            result |-> <<"return">>]
    /\ UNCHANGED <<events, continuity, documents, assignments, settings,
                   seq_patents, now, api_key, schema, hooks, running, thread, wait, interval_minutes,
                   pc, upd, poll>>

\* db.add_event called directly with a patent's id (ui.py lines 964-970)
AddEventCall(facts) ==
    /\ pc["main"] = "idle"
    /\ \E patent_id \in PatentIds, e \in facts, busy \in Busy :
        IF busy
        THEN /\ last' = [op |-> "add_event",
                         args |-> <<patent_id, e.event_code, e.event_date>>,
                         result |-> <<"raise", "OperationalError">>]
             /\ UNCHANGED <<events, locked>>
        ELSE /\ add_event_ok(patent_id, e.event_code, e.event_date)
                   => Len(events) < MaxRows
             /\ events' = add_event_db(patent_id, e.event_code,
                                       e.event_description, e.event_date)
             /\ locked' = FALSE
             /\ last' = [op |-> "add_event",
                         args |-> <<patent_id, e.event_code, e.event_date>>,
                         result |-> <<add_event_ok(patent_id, e.event_code,
                                                   e.event_date)>>]
    /\ UNCHANGED <<patents, continuity, documents, assignments, settings,
                   seq_patents, now, api_key, schema, hooks, running, thread, wait, interval_minutes, pc, upd, poll>>

\* db.mark_events_seen
MarkEventsSeen ==
    /\ pc["main"] = "idle"
    /\ \E patent_id \in PatentIds, busy \in Busy :
        IF busy
        THEN /\ last' = [op |-> "mark_events_seen", args |-> <<patent_id>>,
                         result |-> <<"raise", "OperationalError">>]
             /\ UNCHANGED <<events, locked>>
        ELSE /\ events' = mark_events_seen_db(patent_id)
             /\ locked' = FALSE
             /\ last' = [op |-> "mark_events_seen", args |-> <<patent_id>>,
                         result |-> <<"return">>]
    /\ UNCHANGED <<patents, continuity, documents, assignments, settings,
                   seq_patents, now, api_key, schema, hooks, running, thread, wait, interval_minutes, pc, upd, poll>>

\* A refresh that goes to the remote without looking the patent up.
RefreshSingle_without_lookup(raws) ==
    /\ pc["main"] = "idle"
    /\ \E raw \in raws :
        LET app_num == normalize_app_number(raw)
            rows == PatentRows(app_num)
        IN /\ upd' = [upd EXCEPT !["main"] =
                  BeginUpdate(IF rows = {} THEN 0
                              ELSE (CHOOSE p \in rows : TRUE).id, app_num)]
           /\ pc' = [pc EXCEPT !["main"] = "fetch_application"]
           /\ last' = [op |-> "refresh_single_patent", args |-> <<app_num>>,
                       result |-> <<>>]
    /\ UNCHANGED <<store, now, api_key, schema, hooks, running, thread, wait, interval_minutes, poll>>

\* refresh_single_patent (polling.py lines 300-327), run by the UI thread
RefreshSingle(raws) ==
    /\ pc["main"] = "idle"
    /\ \E raw \in raws :
        LET app_num == normalize_app_number(raw)
            rows == PatentRows(app_num)
        IN IF rows = {}
           THEN /\ last' = [op |-> "refresh_single_patent", args |-> <<app_num>>,
                            result |-> <<"raise", "ValueError">>]
                /\ UNCHANGED <<pc, upd>>
           ELSE /\ upd' = [upd EXCEPT !["main"] =
                       BeginUpdate((CHOOSE p \in rows : TRUE).id, app_num)]
                /\ pc' = [pc EXCEPT !["main"] = "fetch_application"]
                /\ last' = [op |-> "refresh_single_patent", args |-> <<app_num>>,
                            result |-> <<>>]
    /\ UNCHANGED <<store, now, api_key, schema, hooks, running, thread, wait, interval_minutes, poll>>

\* credentials.has_api_key
has_api_key == get_api_key # <<>>

\* credentials.store_api_key: keyring.set_password, False when it raises
store_api_key(keys) ==
    /\ pc["main"] = "idle"
    /\ \E key \in keys, stored \in BOOLEAN :
        /\ api_key' = IF stored THEN <<key>> ELSE api_key
        /\ last' = [op |-> "store_api_key", args |-> <<key>>,
                    result |-> <<stored>>]
    /\ UNCHANGED <<store, now, schema, hooks, running, thread, wait,
                   interval_minutes,
                   pc, upd, poll>>

\* credentials.delete_api_key: True when the key is deleted and when there
\* is none, False when the vault raises anything else
delete_api_key ==
    /\ pc["main"] = "idle"
    /\ \E deleted \in BOOLEAN :
        /\ api_key' = IF deleted THEN <<>> ELSE api_key
        /\ last' = [op |-> "delete_api_key", args |-> <<>>,
                    result |-> <<deleted>>]
    /\ UNCHANGED <<store, now, schema, hooks, running, thread, wait,
                   interval_minutes,
                   pc, upd, poll>>

\* _on_refresh_click (ui.py lines 877-892): without a key an error box and
\* nothing else; with one, a thread that runs poll_now;
\* the button stays disabled until that thread has finished.
RefreshClick ==
    /\ pc["main"] = "idle"
    /\ has_api_key
    /\ pc["refresh"] = "idle"
    /\ pc' = [pc EXCEPT !["refresh"] = "poll_now"]
    /\ last' = [op |-> "poll_now", args |-> <<>>, result |-> <<>>]
    /\ UNCHANGED <<store, now, api_key, schema, hooks, running, thread, wait, interval_minutes, upd, poll>>

\* Time passes.
Tick ==
    /\ now < MaxTime
    /\ now' = now + 1
    /\ UNCHANGED <<store, service, pc, upd, poll, last, api_key, schema, hooks>>

(***************************************************************************)
(* PollingService.start, stop and _poll_loop, src/src/polling.py.          *)
(***************************************************************************)
\* The wait loop of a thread: the length of its range and the passes done.
NoWait == [passes |-> 0, done |-> 0]

\* The thread object start() creates: one that is not alive.
NewThread == IF pc["loop1"] = "idle" THEN "loop1" ELSE "loop2"

\* A thread that start() launches although the scheduler is running.
start_launches_again(intervals) ==
    /\ pc["main"] = "idle"
    /\ \E m \in intervals :
        /\ pc[NewThread] = "idle"
        /\ running' = TRUE
        /\ thread' = <<NewThread>>
        /\ pc' = [pc EXCEPT ![NewThread] = "loop_test"]
        /\ interval_minutes' = IF m # 0 THEN m ELSE interval_minutes
        /\ last' = [op |-> "start", args |-> <<m>>, result |-> <<"return">>]
    /\ UNCHANGED <<store, now, api_key, schema, hooks, wait, upd, poll>>

\* lines 181-189: interval_minutes is None (0 here, as falsy) or a number
start(intervals) ==
    /\ pc["main"] = "idle"
    /\ \E m \in intervals :
        /\ IF running
           THEN UNCHANGED <<running, thread, pc, interval_minutes>>
           ELSE /\ pc[NewThread] = "idle"
                /\ running' = TRUE
                /\ thread' = <<NewThread>>
                /\ pc' = [pc EXCEPT ![NewThread] = "loop_test"]
                /\ interval_minutes' = IF m # 0 THEN m ELSE interval_minutes
        /\ last' = [op |-> "start", args |-> <<m>>, result |-> <<"return">>]
    /\ UNCHANGED <<store, now, api_key, schema, hooks, wait, upd, poll>>

\* line 193, and the test of line 194
stop ==
    /\ pc["main"] = "idle"
    /\ running' = FALSE
    /\ pc' = [pc EXCEPT !["main"] = IF thread # <<>> THEN "join" ELSE "idle"]
    /\ last' = [op |-> "stop", args |-> <<>>,
                result |-> IF thread # <<>> THEN <<>> ELSE <<"return">>]
    /\ UNCHANGED <<store, now, api_key, schema, hooks, thread, wait, interval_minutes, upd, poll>>

\* lines 198-204
set_interval(intervals) ==
    /\ pc["main"] = "idle"
    /\ \E m \in intervals :
        /\ interval_minutes' = m
        /\ last' = [op |-> "set_interval", args |-> <<m>>, result |-> <<"return">>]
    /\ UNCHANGED <<store, now, api_key, schema, hooks, running, thread, wait, pc, upd, poll>>

\* The thread is inside a request to the remote, which may take up to its
\* timeout of 30 seconds (uspto_api.py line 100 and the like).
InRequest(l) ==
    pc[l] \in {"fetch_application", "fetch_adjustment", "fetch_continuity",
               "fetch_documents", "fetch_assignment", "fetch_attorney",
               "fetch_foreign_priority"}

\* A join without its timeout: it returns when the thread has ended.
Join_waits_for_exit ==
    /\ pc["main"] = "join"
    /\ pc[thread[1]] = "idle"
    /\ thread' = <<>>
    /\ pc' = [pc EXCEPT !["main"] = "idle"]
    /\ last' = [last EXCEPT !.result = <<"return">>]
    /\ UNCHANGED <<store, now, api_key, schema, hooks, running, wait, upd, poll, calls, interval_minutes>>

\* lines 195-196: join(timeout=5) returns when the thread has ended, or
\* after five seconds, which a thread inside a request or inside the sleep
\* between two records of a batch can outlast.
Join ==
    /\ pc["main"] = "join"
    /\ \/ pc[thread[1]] = "idle"
       \/ InRequest(thread[1])
       \/ pc[thread[1]] = "poll_sleep"
    /\ thread' = <<>>
    /\ pc' = [pc EXCEPT !["main"] = "idle"]
    /\ last' = [last EXCEPT !.result = <<"return">>]
    /\ UNCHANGED <<store, now, api_key, schema, hooks, running, wait, upd, poll, calls, interval_minutes>>

\* line 279: while self._running; the thread ends when it is false
LoopTest(l) ==
    /\ pc[l] = "loop_test"
    /\ pc' = [pc EXCEPT ![l] = IF running THEN "poll_now" ELSE "idle"]
    /\ UNCHANGED <<store, now, api_key, schema, hooks, service, upd, poll, last>>

\* One invocation of a callback: which one, what it was given ("new_events",
\* "errors", or "polling_error" for the one-message list of line 291), how
\* many entries, and whether the callback raised.
Invocation(callback, kind, count, raised) ==
    [callback |-> callback, kind |-> kind, count |-> count, raised |-> raised]

\* The callback invocations with the on_error callback ahead of on_update.
loop_callbacks_errors_first(result, faults) ==
    LET second == IF result.new_events # <<>> /\ on_update
                  THEN <<Invocation("on_update", "new_events",
                                    Len(result.new_events), FALSE)>>
                  ELSE <<>>
        first == IF result.errors # <<>> /\ on_error
                 THEN <<Invocation("on_error", "errors", Len(result.errors),
                                   FALSE)>>
                 ELSE <<>>
    IN first \o second

\* lines 280-291: the callback invocations of one iteration, in order.
\* result is the poll record, its status "raised" when poll_now raised;
\* faults is the set of invocations that raise: "on_update" (line 284),
\* "on_error" (line 287), "handler" (line 291).  An exception of the try
\* block reaches the except clause, which reports it through on_error.
loop_callbacks(result, faults) ==
    LET returned == result.status # "raised"
        first == IF returned /\ result.new_events # <<>> /\ on_update
                 THEN <<Invocation("on_update", "new_events",
                                   Len(result.new_events),
                                   "on_update" \in faults)>>
                 ELSE <<>>
        exc1 == first # <<>> /\ first[1].raised
        second == IF returned /\ ~exc1 /\ result.errors # <<>> /\ on_error
                  THEN <<Invocation("on_error", "errors", Len(result.errors),
                                    "on_error" \in faults)>>
                  ELSE <<>>
        exc == ~returned \/ exc1 \/ (second # <<>> /\ second[1].raised)
        handler == IF exc /\ on_error
                   THEN <<Invocation("on_error", "polling_error", 1,
                                     "handler" \in faults)>>
                   ELSE <<>>
    IN first \o second \o handler

\* The exception of the except clause's own on_error call leaves _poll_loop.
Escapes(invocations) ==
    /\ invocations # <<>>
    /\ invocations[Len(invocations)].kind = "polling_error"
    /\ invocations[Len(invocations)].raised

\* lines 280-291 after poll_now: the callbacks get its result, the except
\* clause reports an exception; an exception that leaves the loop ends the
\* thread, the flag _running staying as it is.
Notify(l, fault_sets) ==
    /\ pc[l] = "callbacks"
    /\ \E faults \in fault_sets :
        LET invocations == loop_callbacks(poll[l], faults)
        IN /\ notified' = [notified EXCEPT ![l] = invocations]
           /\ pc' = [pc EXCEPT ![l] = IF Escapes(invocations) THEN "idle"
                                      ELSE "wait_begin"]
    /\ poll' = [poll EXCEPT ![l] = NoPoll]
    /\ UNCHANGED <<store, now, api_key, schema, on_update, on_error, service,
                   upd, last>>

\* lines 283-291 with callbacks that return
Callbacks(l) == Notify(l, {{}})

\* lines 234-238 of poll_now raise: the store cannot be read (sqlite3.Error
\* from get_all_patents or get_setting); the exception reaches the except
\* clause of _poll_loop.
PollRaise(l) ==
    /\ pc[l] = "poll_now"
    /\ l \in LoopThreads
    /\ poll' = [poll EXCEPT ![l] = [NoPoll EXCEPT !.status = "raised"]]
    /\ pc' = [pc EXCEPT ![l] = "callbacks"]
    /\ UNCHANGED <<store, now, api_key, schema, hooks, service, upd, last>>

\* range(self._interval_minutes * 60): passes of the wait loop.  The range
\* is built once, when the for loop is entered.
WaitPasses(minutes) == minutes * IntervalSeconds

\* A wait loop that sleeps the whole interval without a look at the flag.
Wait_ignores_flag(l) ==
    /\ pc[l] = "wait"
    /\ IF wait[l].done < wait[l].passes
       THEN /\ wait' = [wait EXCEPT ![l].done = @ + 1]
            /\ pc' = [pc EXCEPT ![l] = "sleep"]
       ELSE /\ wait' = [wait EXCEPT ![l] = NoWait]
            /\ pc' = [pc EXCEPT ![l] = "loop_test"]
    /\ UNCHANGED <<store, now, api_key, schema, hooks, running, thread, upd, poll, last, calls,
                   interval_minutes>>

\* line 294: the for loop is entered and its range evaluated; the callbacks
\* of the iteration are over
WaitBegin(l) ==
    /\ pc[l] = "wait_begin"
    /\ wait' = [wait EXCEPT ![l] =
           [passes |-> WaitPasses(interval_minutes), done |-> 0]]
    /\ pc' = [pc EXCEPT ![l] = "wait"]
    /\ notified' = [notified EXCEPT ![l] = <<>>]
    /\ UNCHANGED <<store, now, api_key, schema, on_update, on_error, running,
                   thread, upd, poll, last, calls, interval_minutes>>

\* lines 294-296: one pass of the wait loop up to its sleep; the loop is
\* left when the range is used up or the flag is down
Wait(l) ==
    /\ pc[l] = "wait"
    /\ IF wait[l].done < wait[l].passes /\ running
       THEN /\ wait' = [wait EXCEPT ![l].done = @ + 1]
            /\ pc' = [pc EXCEPT ![l] = "sleep"]
       ELSE /\ wait' = [wait EXCEPT ![l] = NoWait]
            /\ pc' = [pc EXCEPT ![l] = "loop_test"]
    /\ UNCHANGED <<store, now, api_key, schema, hooks, running, thread, upd, poll, last, calls,
                   interval_minutes>>

\* line 297: time.sleep(1) is over
Sleep(l) ==
    /\ pc[l] = "sleep"
    /\ pc' = [pc EXCEPT ![l] = "wait"]
    /\ UNCHANGED <<store, now, api_key, schema, hooks, service, upd, poll, last>>

(***************************************************************************)
(* What the remote may answer.                                             *)
(***************************************************************************)
\* eventDate is <<text>>, or <<>> for a JSON null.
RawEvents ==
    {[eventCode |-> "CTNF", eventDescriptionText |-> "x", eventDate |-> <<"d1">>],
     [eventCode |-> "CTNF", eventDescriptionText |-> "y", eventDate |-> <<"d1">>],
     [eventCode |-> "NOA", eventDescriptionText |-> "x", eventDate |-> <<>>]}

EventFacts ==
    {[event_code |-> e.eventCode, event_description |-> e.eventDescriptionText,
      event_date |-> e.eventDate] : e \in RawEvents}

Wrapper(title, filing_date, event_bag) ==
    [applicationMetaData |-> [inventionTitle |-> title, filingDate |-> filing_date],
     eventDataBag |-> event_bag]

FailedApplicationResponses ==
    {Status(500), Status(404), Malformed,
     Ok([count |-> 0, patentFileWrapperDataBag |-> <<>>]),
     Ok([count |-> 1, patentFileWrapperDataBag |-> <<>>])}

LedgerApplicationResponses ==
    FailedApplicationResponses \cup
    {Ok([count |-> 1, patentFileWrapperDataBag |-> <<Wrapper("T1", <<>>, bag)>>]) :
        bag \in SeqsUpTo(RawEvents, MaxEvents)}

Down == {Status(500)}

(***************************************************************************)
(* Schema bootstrap: init_database and migrate_database.  A column is the  *)
(* pair <<name, type>> of PRAGMA table_info; the model keeps the columns   *)
(* of patents that its rows carry (the key columns and allowed_fields).    *)
(***************************************************************************)
\* init_database: the columns of CREATE TABLE IF NOT EXISTS patents
base_patent_columns ==
    << <<"id", "INTEGER">>, <<"application_number", "TEXT">>,
       <<"title", "TEXT">>, <<"filing_date", "TEXT">>,
       <<"last_checked", "TEXT">>, <<"created_at", "TEXT">> >>

\* migrate_database: new_patent_columns, in the order of the list
new_patent_columns ==
    << <<"pta_total_days", "INTEGER">>, <<"expiration_date", "TEXT">>,
       <<"foreign_priority_bag", "TEXT">>, <<"attorney_bag", "TEXT">>,
       <<"assignment_bag", "TEXT">> >>

InitTables == {"patents", "events", "settings"}
InitIndexes == {"idx_events_patent_id", "idx_events_date",
                "idx_events_first_seen", "idx_patents_app_num"}
MigrateTables == {"continuity", "documents", "assignments"}
MigrateIndexes == {"idx_continuity_patent_id", "idx_documents_patent_id",
                   "idx_documents_code", "idx_assignments_patent_id"}

\* A database file that has no table yet.
EmptySchema == [tables |-> {}, indexes |-> {}, patents |-> <<>>]

\* existing_columns: the names PRAGMA table_info(patents) lists
ColumnNames(table_info) == {table_info[i][1] : i \in 1..Len(table_info)}

\* The statements of init_database before its call of migrate_database:
\* CREATE TABLE IF NOT EXISTS and CREATE INDEX IF NOT EXISTS.  An index on
\* a table is created with the table there, as the tables are created first.
create_tables(s) ==
    [tables |-> s.tables \cup InitTables,
     indexes |-> s.indexes \cup InitIndexes,
     patents |-> IF "patents" \in s.tables THEN s.patents
                 ELSE base_patent_columns]

\* migrate_database, the columns of patents: ALTER TABLE patents ADD COLUMN
\* for every column of the list that is not there, at the end of the table;
\* without a table patents every ALTER raises OperationalError, which the
\* loop passes over.
migrate_columns(s) ==
    IF "patents" \in s.tables
    THEN s.patents \o
         SelectSeq(new_patent_columns,
                   LAMBDA c : c[1] \notin ColumnNames(s.patents))
    ELSE s.patents

\* migrate_database: the columns, then the tables and the indexes of the
\* continuity, documents and assignments endpoints.
migrate_schema(s) ==
    [tables |-> s.tables \cup MigrateTables,
     indexes |-> s.indexes \cup MigrateIndexes,
     patents |-> migrate_columns(s)]

\* A migration that builds the table anew and copies the columns of
\* CREATE TABLE only.
migrate_rows_base_only(rows, table_info) ==
    {[r EXCEPT !.cols =
        [c \in ColumnNames(table_info) \cap allowed_fields |->
            IF c \in DOMAIN r.cols \cap ColumnNames(base_patent_columns)
            THEN r.cols[c] ELSE <<>>]] : r \in rows}

\* The rows of patents under a new list of columns: a row holds its value
\* in every column the table keeps and NULL in a column that was added.
migrate_rows(rows, table_info) ==
    {[r EXCEPT !.cols =
        [c \in ColumnNames(table_info) \cap allowed_fields |->
            IF c \in DOMAIN r.cols THEN r.cols[c] ELSE <<>>]] : r \in rows}

\* init_database(): the tables, the indexes, commit, then migrate_database().
\* ui.py calls it once, when the window is built, so no connection of the
\* process has been abandoned then.
InitDatabase ==
    /\ pc["main"] = "idle"
    /\ ~locked
    /\ schema' = migrate_schema(create_tables(schema))
    /\ patents' = migrate_rows(patents, schema'.patents)
    /\ last' = [op |-> "init_database", args |-> <<>>, result |-> <<"return">>]
    /\ UNCHANGED <<events, continuity, documents, assignments, settings,
                   seq_patents, locked, now, api_key, hooks, running, thread,
                   wait, interval_minutes, pc, upd, poll>>

\* migrate_database() on its own.
MigrateDatabase ==
    /\ pc["main"] = "idle"
    /\ ~locked
    /\ schema' = migrate_schema(schema)
    /\ patents' = migrate_rows(patents, schema'.patents)
    /\ last' = [op |-> "migrate_database", args |-> <<>>,
                result |-> <<"return">>]
    /\ UNCHANGED <<events, continuity, documents, assignments, settings,
                   seq_patents, locked, now, api_key, hooks, running, thread,
                   wait, interval_minutes, pc, upd, poll>>

\* The schema init_database leaves in a new file.
CurrentSchema == migrate_schema(create_tables(EmptySchema))

(***************************************************************************)
(* Table preferences: load_table_preferences, default_table_preferences    *)
(* and validate_table_preferences of src/src/database.py.  A JSON value is *)
(* the pair of its Python type and its content; a dict is the sequence of  *)
(* its <<key, value>> items, a setting that holds the text json.dumps      *)
(* wrote is <<"json", value>>, any other text is <<"text", characters>>.   *)
(***************************************************************************)
JStr(s) == <<"str", s>>
JInt(n) == <<"int", n>>
JBool(b) == <<"bool", b>>
JNull == <<"null">>
JList(items) == <<"list", items>>
JDict(items) == <<"dict", items>>

\* json.loads(text): <<value>>, or <<>> for JSONDecodeError
json_loads(text) == IF text[1] = "json" THEN <<text[2]>> ELSE <<>>

\* dict.get(key, default)
DictGet(d, key, default) ==
    LET hits == SelectSeq(d[2], LAMBDA item : item[1] = key)
    IN IF hits = <<>> THEN default ELSE hits[Len(hits)][2]

\* bool(x), the truth value of a Python object
Truthy(v) ==
    CASE v[1] = "null" -> FALSE
      [] v[1] = "bool" -> v[2]
      [] v[1] = "int" -> v[2] # 0
      [] v[1] = "str" -> v[2] # ""
      [] OTHER -> v[2] # <<>>

\* isinstance(v, int) and v > 0: bool is a subclass of int, True > 0
PositiveInt(v) ==
    \/ v[1] = "int" /\ v[2] > 0
    \/ v[1] = "bool" /\ v[2]

\* The column definitions of the patents table: key, width, default_visible
\* (some of PATENT_COLUMNS, in its order).
PATENT_COLUMNS ==
    << [key |-> "title", width |-> 280, default_visible |-> TRUE],
       [key |-> "current_status", width |-> 180, default_visible |-> TRUE],
       [key |-> "expiration_date", width |-> 95, default_visible |-> TRUE],
       [key |-> "filing_date", width |-> 95, default_visible |-> FALSE] >>

\* [c["key"] for c in columns if c.get("default_visible")]
DefaultVisible(columns) ==
    LET chosen == SelectSeq(columns, LAMBDA c : c.default_visible)
    IN [i \in 1..Len(chosen) |-> chosen[i].key]

\* default_table_preferences(columns)
default_table_preferences(columns) ==
    [visible_columns |-> DefaultVisible(columns),
     column_widths |-> [i \in 1..Len(columns) |->
                            <<columns[i].key, JInt(columns[i].width)>>],
     sort_column |-> <<>>,
     sort_ascending |-> TRUE]

\* for key in default_visible: if key not in existing: visible.append(key)
RECURSIVE AppendDefaults(_, _)
AppendDefaults(visible, default_visible) ==
    IF default_visible = <<>> THEN visible
    ELSE IF Head(default_visible) \in Range(visible)
         THEN AppendDefaults(visible, Tail(default_visible))
         ELSE AppendDefaults(Append(visible, Head(default_visible)),
                             Tail(default_visible))

\* A validation that puts the default-visible columns before the entries
\* of the preferences.
validate_visible_defaults_first(prefs, columns) ==
    LET valid_key_set == {columns[i].key : i \in 1..Len(columns)}
        visible_raw == DictGet(prefs, "visible_columns", JList(<<>>))
        kept == SelectSeq(IF visible_raw[1] = "list" THEN visible_raw[2] ELSE <<>>,
                          LAMBDA k : k[1] = "str" /\ k[2] \in valid_key_set)
        visible == [i \in 1..Len(kept) |-> kept[i][2]]
    IN DefaultVisible(columns) \o
       SelectSeq(visible, LAMBDA k : k \notin Range(DefaultVisible(columns)))

\* validate_table_preferences, lines 544-562: the visible columns
validate_visible(prefs, columns) ==
    LET valid_key_set == {columns[i].key : i \in 1..Len(columns)}
        default_visible == DefaultVisible(columns)
        visible_raw == DictGet(prefs, "visible_columns", JList(<<>>))
        kept == SelectSeq(IF visible_raw[1] = "list" THEN visible_raw[2] ELSE <<>>,
                          LAMBDA k : k[1] = "str" /\ k[2] \in valid_key_set)
        visible == [i \in 1..Len(kept) |-> kept[i][2]]
    IN AppendDefaults(IF visible = <<>> THEN default_visible ELSE visible,
                      default_visible)

\* validate_table_preferences(prefs, columns)
validate_table_preferences(prefs, columns) ==
    LET valid_key_set == {columns[i].key : i \in 1..Len(columns)}
        widths_raw == DictGet(prefs, "column_widths", JDict(<<>>))
        sort_column == DictGet(prefs, "sort_column", JNull)
    IN [visible_columns |-> validate_visible(prefs, columns),
        column_widths |->
            IF widths_raw[1] = "dict"
            THEN SelectSeq(widths_raw[2],
                           LAMBDA item : /\ item[1] \in valid_key_set
                                         /\ PositiveInt(item[2]))
            ELSE <<>>,
        sort_column |->
            IF sort_column[1] = "str" /\ sort_column[2] \in valid_key_set
            THEN <<sort_column[2]>> ELSE <<>>,
        sort_ascending |-> Truthy(DictGet(prefs, "sort_ascending", JBool(TRUE)))]

\* if raw: / if not legacy: a text that is there and is not empty
HasText(raw) == raw # <<>> /\ (raw[1][1] = "json" \/ raw[1][2] # "")

\* load_table_preferences without the alias table.
legacy_mapping_none(c) == c

\* load_table_preferences: mapping.get(c, c)
legacy_mapping(c) ==
    CASE c = "status" -> "current_status"
      [] c = "expiration" -> "expiration_date"
      [] OTHER -> c

\* load_table_preferences(table_id): <<>> (None) or <<the dict>>
load_table_preferences(table_id) ==
    LET raw == settings[table_id \o "_table_prefs"]
        parsed == json_loads(raw[1])
        legacy == settings["patents_columns"]
        cols == json_loads(legacy[1])
        names == SelectSeq(cols[1][2], LAMBDA c : c[1] = "str")
        visible == [i \in 1..Len(names) |-> JStr(legacy_mapping(names[i][2]))]
    IN IF HasText(raw)
       THEN IF parsed # <<>> /\ parsed[1][1] = "dict" THEN parsed ELSE <<>>
       ELSE IF table_id # "patents" \/ ~HasText(legacy) THEN <<>>
       ELSE IF cols = <<>> THEN <<>>
       ELSE IF cols[1][1] # "list" THEN <<>>
       ELSE <<JDict(<< <<"visible_columns", JList(visible)>>,
                       <<"column_widths", JDict(<<>>)>> >>)>>

\* save_table_preferences(table_id, prefs): set_setting of json.dumps(prefs)
save_table_preferences_db(table_id, prefs) ==
    [settings EXCEPT ![table_id \o "_table_prefs"] = <<json_dumps(prefs)>>]

\* A call of validate_table_preferences(prefs, columns).
ValidateTablePreferences(prefs_set, schemas) ==
    /\ pc["main"] = "idle"
    /\ \E prefs \in prefs_set, columns \in schemas :
        last' = [op |-> "validate_table_preferences",
                 args |-> <<prefs, columns>>,
                 result |-> <<validate_table_preferences(prefs, columns)>>]
    /\ UNCHANGED <<store, now, api_key, schema, hooks, service, pc, upd, poll>>

\* DataTable._load_preferences: load_table_preferences, then
\* validate_table_preferences if prefs else default_table_preferences
\* (an empty dict counts as no preferences).
LoadPreferences(table_ids, schemas) ==
    /\ pc["main"] = "idle"
    /\ \E table_id \in table_ids, columns \in schemas :
        LET prefs == load_table_preferences(table_id)
        IN last' = [op |-> "_load_preferences",
                    args |-> <<table_id, columns>>,
                    result |-> IF prefs # <<>> /\ Truthy(prefs[1])
                               THEN <<validate_table_preferences(prefs[1], columns)>>
                               ELSE <<default_table_preferences(columns)>>]
    /\ UNCHANGED <<store, now, api_key, schema, hooks, service, pc, upd, poll>>

\* DataTable._save_preferences: save_table_preferences(table_id, prefs)
SavePreferences(table_ids, prefs_set) ==
    /\ pc["main"] = "idle"
    /\ ~locked
    /\ \E table_id \in table_ids, prefs \in prefs_set :
        /\ settings' = save_table_preferences_db(table_id, prefs)
        /\ last' = [op |-> "save_table_preferences",
                    args |-> <<table_id, prefs>>, result |-> <<"return">>]
    /\ UNCHANGED <<patents, events, continuity, documents, assignments,
                   seq_patents, locked, now, api_key, schema, hooks, service, pc,
                   upd, poll>>

\* A call of format_app_number(app_number), as the table and the dialogs of
\* the window make for display.
FormatAppNumber(app_numbers) ==
    /\ pc["main"] = "idle"
    /\ \E app_number \in app_numbers :
        last' = [op |-> "format_app_number", args |-> <<app_number>>,
                 result |-> <<format_app_number(app_number)>>]
    /\ UNCHANGED <<store, now, api_key, schema, hooks, service, pc, upd, poll>>

\* A call of calculate_expiration_date(filing_date, pta_days).
CalculateExpirationDate(filing_dates, days) ==
    /\ pc["main"] = "idle"
    /\ \E filing_date \in filing_dates, pta_days \in days :
        last' = [op |-> "calculate_expiration_date",
                 args |-> <<filing_date, pta_days>>,
                 result |-> <<calculate_expiration_date(filing_date, pta_days)>>]
    /\ UNCHANGED <<store, now, api_key, schema, hooks, service, pc, upd, poll>>

(***************************************************************************)
(* Init: a fresh store after init_database, a PollingService just built.   *)
(***************************************************************************)
Init ==
    /\ patents = {}
    /\ events = <<>>
    /\ continuity = <<>>
    /\ documents = <<>>
    /\ assignments = <<>>
    /\ settings = [k \in {"poll_delay_seconds"} |-> <<>>]
    /\ seq_patents = 0
    /\ locked = FALSE
    /\ now = 0
    /\ running = FALSE
    /\ thread = <<>>
    /\ wait = [t \in LoopThreads |-> NoWait]
    /\ pc = [t \in Threads |-> "idle"]
    /\ upd = [t \in Threads |-> NoUpdate]
    /\ poll = [t \in Threads |-> NoPoll]
    /\ last = [op |-> "", args |-> <<>>, result |-> <<>>]
    /\ calls = 0
    /\ interval_minutes = DefaultInterval
    /\ on_update = TRUE
    /\ on_error = TRUE
    /\ notified = [l \in LoopThreads |-> <<>>]
    /\ api_key \in ApiKeys
    /\ schema = CurrentSchema

MaxPatentId == 3    \* patents ever added in a run

\* The steps of _update_patent_from_api and poll_now by thread t.
EngineStep(t, application, adjustment, cont, docs, assign, attorney, priority) ==
    \/ FetchApplication(t, application)
    \/ FetchAdjustment(t, adjustment)
    \/ FetchContinuity(t, cont)
    \/ FetchDocuments(t, docs)
    \/ FetchAssignment(t, assign)
    \/ FetchAttorney(t, attorney)
    \/ FetchForeignPriority(t, priority)
    \/ UpdatePatent(t)
    \/ AddEvent(t)
    \/ Return(t)
    \/ PollStart(t)
    \/ PollNext(t)
    \/ PollSleep(t)
    \/ PollFinish(t)

\* No engine execution is in flight and the refresh thread is not alive.
Quiet == NoSyncInFlight /\ pc["refresh"] = "idle"

\* A call the UI thread makes while nothing else runs.
Alone(op) == Quiet /\ op /\ UNCHANGED calls

LedgerRaws == {<<"1">>, <<"1", "/">>}

\* The engine with one execution at a time, on one tracked application whose
\* event history the remote answers in any way; the optional endpoints are
\* down.
Next ==
    \/ Alone(AddPatent(LedgerRaws, MaxPatentId))
    \/ Alone(RemovePatent(LedgerRaws))
    \/ Alone(AddEventCall(EventFacts))
    \/ Alone(MarkEventsSeen)
    \/ Alone(RefreshSingle(LedgerRaws))
    \/ Alone(RefreshClick)
    \/ Tick
    \/ \E t \in {"main", "refresh"} :
        EngineStep(t, LedgerApplicationResponses, Down, Down, Down, Down, Down, Down)

Spec == Init /\ [][Next]_vars

(***************************************************************************)
(* The engine with one execution at a time on one tracked application      *)
(* whose required endpoint answers or fails, and whose optional endpoints  *)
(* each answer, fail with an API error, or crash.                          *)
(***************************************************************************)
SnapEvent ==
    [eventCode |-> "CTNF", eventDescriptionText |-> "x", eventDate |-> <<"d1">>]

SnapApplicationResponses ==
    {Status(500),
     Ok([count |-> 1, patentFileWrapperDataBag |->
            <<Wrapper("T1", <<2004, 2, 29>>, <<SnapEvent>>)>>])}

SnapAdjustmentResponses == {Status(500), Status(404), Malformed, Ok(<<1>>)}

SnapContinuityResponses ==
    {Status(500), Status(404),
     Ok([parentContinuityBag |-> <<"p1">>, childContinuityBag |-> <<"c1">>]),
     Ok([parentContinuityBag |-> <<"p1", "p1">>, childContinuityBag |-> <<>>])}

SnapDocumentsResponses ==
    {Status(500), Malformed,
     Ok([documentBag |-> <<[documentIdentifier |-> <<"d1">>,
                            documentCode |-> "CTNF"]>>]),
     Ok([documentBag |-> <<[documentIdentifier |-> <<"d2">>,
                            documentCode |-> "NOA"]>>])}

SnapAssignmentResponses ==
    {Status(500), Status(404),
     Ok([patentAssignmentBag |-> <<[reelAndFrameNumber |-> "rf1"]>>])}

SnapAttorneyResponses == {Status(500), Ok(<<"a1">>)}

SnapPriorityResponses == {Status(500), Ok([foreignPriorityBag |-> <<"fp1">>])}

SnapRaws == {<<"1">>}

NextSnap ==
    \/ Alone(AddPatent(SnapRaws, MaxPatentId))
    \/ Alone(RefreshSingle(SnapRaws))
    \/ Alone(RefreshClick)
    \/ \E t \in {"main", "refresh"} :
        EngineStep(t, SnapApplicationResponses, SnapAdjustmentResponses,
                   SnapContinuityResponses, SnapDocumentsResponses,
                   SnapAssignmentResponses, SnapAttorneyResponses,
                   SnapPriorityResponses)

SpecSnap == Init /\ [][NextSnap]_vars

(***************************************************************************)
(* Batches, one at a time, over up to MaxPatentId tracked applications     *)
(* whose required endpoint answers, fails or cannot be parsed.             *)
(***************************************************************************)
BatchApplicationResponses ==
    {Status(500), Malformed, Ok([count |-> 1, patentFileWrapperDataBag |-> <<>>]),
     Ok([count |-> 1, patentFileWrapperDataBag |->
            <<Wrapper("T1", <<>>, <<SnapEvent>>)>>])}

BatchRaws == {<<"1">>, <<"2">>, <<"3">>}

NextBatch ==
    \/ Alone(AddPatent(BatchRaws, MaxPatentId))
    \/ Alone(RemovePatent(BatchRaws))
    \/ Alone(RefreshClick)
    \/ EngineStep("refresh", BatchApplicationResponses, Down, Down, Down, Down,
                  Down, Down)

SpecBatch == Init /\ [][NextBatch]_vars

(***************************************************************************)
(* The service with its threads running as the scheduler lets them: the UI *)
(* thread makes up to MaxCalls calls, the refresh thread and the           *)
(* background loops take their steps in any order.                         *)
(***************************************************************************)
ConcApplicationResponses ==
    {Status(500),
     Ok([count |-> 1, patentFileWrapperDataBag |->
            <<Wrapper("T1", <<>>, <<SnapEvent>>)>>])}

ConcRaws == {<<"1">>}

\* The steps of _poll_loop itself by thread l.
LoopStep(l) ==
    \/ LoopTest(l)
    \/ Callbacks(l)
    \/ WaitBegin(l)
    \/ Wait(l)
    \/ Sleep(l)

Call(op) == calls < MaxCalls /\ op /\ calls' = calls + 1

NextConc ==
    \/ Call(AddPatent(ConcRaws, MaxPatentId))
    \/ Call(RefreshSingle(ConcRaws))
    \/ Call(RefreshClick)
    \/ Call(start({DefaultInterval}))
    \/ Call(stop)
    \/ Join
    \/ \E l \in LoopThreads : LoopStep(l)
    \/ \E t \in Threads :
        EngineStep(t, ConcApplicationResponses, Down, Down, Down, Down, Down, Down)

SpecConc == Init /\ [][NextConc]_vars

(***************************************************************************)
(* The engine with one execution at a time on one tracked application      *)
(* whose documents endpoint answers with one document or another, with a   *)
(* document that has no identifier, with none (404), or fails; the other   *)
(* optional endpoints are down.                                            *)
(***************************************************************************)
Doc(id, code) == [documentIdentifier |-> id, documentCode |-> code]

DocsDocumentsResponses ==
    {Status(500), Status(404),
     Ok([documentBag |-> <<Doc(<<"d1">>, "CTNF")>>]),
     Ok([documentBag |-> <<Doc(<<"d2">>, "NOA")>>]),
     Ok([documentBag |-> <<Doc(<<>>, "NOA")>>])}

NextDocs ==
    \/ Alone(AddPatent(SnapRaws, MaxPatentId))
    \/ Alone(RemovePatent(SnapRaws))
    \/ Alone(RefreshSingle(SnapRaws))
    \/ Alone(RefreshClick)
    \/ \E t \in {"main", "refresh"} :
        EngineStep(t, ConcApplicationResponses, Down, Down, DocsDocumentsResponses,
                   Down, Down, Down)

SpecDocs == Init /\ [][NextDocs]_vars

(***************************************************************************)
(* Two applications, tracked and removed under any formatting of their     *)
(* numbers, and synchronized by batches, one execution at a time, against  *)
(* a remote that answers every snapshot endpoint; events are also added    *)
(* by hand and marked as seen.                                             *)
(***************************************************************************)
RemoveRaws == {<<"1">>, <<"1", "/">>, <<"2">>, <<" ", "2">>, <<"2", ",">>}

RemoveApplicationResponses ==
    {Ok([count |-> 1, patentFileWrapperDataBag |->
            <<Wrapper("T1", <<>>, <<SnapEvent>>)>>])}

RemoveContinuityResponses ==
    {Ok([parentContinuityBag |-> <<"p1">>, childContinuityBag |-> <<>>])}

RemoveDocumentsResponses == {Ok([documentBag |-> <<Doc(<<"d1">>, "CTNF")>>])}

RemoveAssignmentResponses ==
    {Ok([patentAssignmentBag |-> <<[reelAndFrameNumber |-> "rf1"]>>])}

\* The event that is added by hand: it has no date.
RemoveFacts == {e \in EventFacts : e.event_date = <<>>}

NextRemove ==
    \/ Alone(AddPatent(RemoveRaws, MaxPatentId))
    \/ Alone(RemovePatent(RemoveRaws))
    \/ Alone(AddEventCall(RemoveFacts))
    \/ Alone(MarkEventsSeen)
    \/ Alone(RefreshClick)
    \/ EngineStep("refresh", RemoveApplicationResponses, Down,
                  RemoveContinuityResponses, RemoveDocumentsResponses,
                  RemoveAssignmentResponses, Down, Down)

SpecRemove == Init /\ [][NextRemove]_vars

(***************************************************************************)
(* The scheduler: the UI thread starts and stops the service and sets its  *)
(* interval, up to MaxCalls calls in all, while the background loops run   *)
(* over one tracked application.  A thread that can take a step takes one  *)
(* in the end (the operating system schedules it, every request and every  *)
(* sleep is bounded), and join(timeout=5) returns.                         *)
(***************************************************************************)
Intervals == {DefaultInterval, DefaultInterval + 1}

SchedRaws == {<<"1">>}

ThreadStep(l) ==
    \/ LoopStep(l)
    \/ EngineStep(l, ConcApplicationResponses, Down, Down, Down, Down, Down, Down)

NextSched ==
    \/ Call(AddPatent(SchedRaws, MaxPatentId))
    \/ Call(start({0} \cup Intervals))
    \/ Call(stop)
    \/ Call(set_interval(Intervals))
    \/ Join
    \/ \E l \in LoopThreads : ThreadStep(l)

SpecSched ==
    /\ Init
    /\ [][NextSched]_vars
    /\ WF_vars(Join)
    /\ \A l \in LoopThreads : WF_vars(ThreadStep(l))

(***************************************************************************)
(* Field updates: update_patent called with any keyword arguments, names   *)
(* outside the allow-list and the key columns among them, on two tracked   *)
(* applications, while the clock runs.                                     *)
(***************************************************************************)
UpdateRaws == {<<"1">>, <<"1", "/">>, <<"2">>}

UpdateKwargs ==
    {<<>>,
     [title |-> "T2"],
     [title |-> "T3", last_checked |-> 1],
     [id |-> 9],
     [application_number |-> <<"9">>],
     [created_at |-> 5],
     [title |-> "T2", id |-> 9, created_at |-> 5],
     [title |-> "T3", application_number |-> <<"9">>],
     "Title" :> "T2",
     "title = 'x', id" :> "T2"}

NextUpdate ==
    \/ Alone(AddPatent(UpdateRaws, MaxPatentId))
    \/ Alone(RemovePatent(UpdateRaws))
    \/ Alone(UpdatePatentCall(UpdateRaws, UpdateKwargs))
    \/ Tick

SpecUpdate == Init /\ [][NextUpdate]_vars

(***************************************************************************)
(* The credential: a key is deleted at any moment the UI thread is free,   *)
(* and stored between synchronizations, while two applications are         *)
(* synchronized against a remote that answers every endpoint.              *)
(***************************************************************************)
KeyRaws == {<<"1">>, <<"2">>}

KeyAdjustmentResponses == {Ok(<<1>>)}

KeyAttorneyResponses == {Ok(<<"a1">>)}

KeyPriorityResponses == {Ok([foreignPriorityBag |-> <<"fp1">>])}

\* A call of the credentials module while no record is being synchronized
\* (a batch may be between two records); it is not counted.
Credential(op) ==
    /\ \A t \in Threads : upd[t].status # "running"
    /\ op
    /\ UNCHANGED calls

NextKey ==
    \/ Alone(AddPatent(KeyRaws, MaxPatentId))
    \/ Alone(RefreshSingle(KeyRaws))
    \/ Alone(RefreshClick)
    \/ Credential(store_api_key({k[1] : k \in ApiKeys \ {<<>>}}))
    \/ delete_api_key /\ UNCHANGED calls
    \/ \E t \in {"main", "refresh"} :
        EngineStep(t, RemoveApplicationResponses, KeyAdjustmentResponses,
                   RemoveContinuityResponses, RemoveDocumentsResponses,
                   RemoveAssignmentResponses, KeyAttorneyResponses,
                   KeyPriorityResponses)

SpecKey == Init /\ [][NextKey]_vars

(***************************************************************************)
(* Not found: the remote knows application 1 and not application 2, and it *)
(* has the optional data of an application at instant 0 and answers 404    *)
(* on the six optional endpoints afterwards.                               *)
(***************************************************************************)
GoneRaws == {<<"1">>, <<"2">>}

NotFound == {Status(404)}

GoneApplicationResponses(t) ==
    IF upd[t].app_num = <<"2">> THEN NotFound ELSE RemoveApplicationResponses

\* What the remote answers on an optional endpoint.
GoneResponses ==
    [adjustment |-> KeyAdjustmentResponses,
     continuity |-> RemoveContinuityResponses,
     documents |-> RemoveDocumentsResponses,
     assignment |-> RemoveAssignmentResponses,
     attorney |-> KeyAttorneyResponses,
     foreign_priority |-> KeyPriorityResponses]

Gone(e) == IF now = 0 THEN GoneResponses[e] ELSE NotFound

NextGone ==
    \/ Alone(AddPatent(GoneRaws, MaxPatentId))
    \/ Alone(RefreshSingle(GoneRaws))
    \/ Alone(RefreshClick)
    \/ Tick
    \/ \E t \in {"main", "refresh"} :
        EngineStep(t, GoneApplicationResponses(t), Gone("adjustment"),
                   Gone("continuity"), Gone("documents"), Gone("assignment"),
                   Gone("attorney"), Gone("foreign_priority"))

SpecGone == Init /\ [][NextGone]_vars

(***************************************************************************)
(* Schema bootstrap on the database files the program leaves behind: a     *)
(* new file, the table of a version that had none of new_patent_columns,   *)
(* a migration that was interrupted after any number of its ALTER          *)
(* statements (each commits as it runs), and the current schema; with      *)
(* records whose columns are all NULL or all set.                          *)
(***************************************************************************)
OldSchemas ==
    {EmptySchema} \cup
    {[tables |-> InitTables \cup ts, indexes |-> InitIndexes \cup is,
      patents |-> base_patent_columns \o SubSeq(new_patent_columns, 1, k)] :
        k \in 0..Len(new_patent_columns),
        ts \in {{}, MigrateTables}, is \in {{}, MigrateIndexes}}

SampleValue(c) ==
    CASE c = "pta_total_days" -> <<1>>
      [] c = "last_checked" -> <<0>>
      [] OTHER -> <<"T1">>

MaxOldRecords == 2      \* records in a database file of an earlier run

\* The records a table patents with these columns holds.
OldRows(table_info) ==
    LET columns == ColumnNames(table_info) \cap allowed_fields
        row(id, set) ==
            [id |-> id, application_number |-> <<id>>,
             created_at |-> 0,
             cols |-> [c \in columns |-> IF c \in set THEN SampleValue(c) ELSE <<>>]]
        sets == {{}, columns, {"title"}}
    IN UNION {{{row(id, f[id]) : id \in 1..n} : f \in [1..n -> sets]} :
                n \in 0..MaxOldRecords}

InitSchema ==
    /\ schema \in OldSchemas
    /\ patents \in IF "patents" \in schema.tables THEN OldRows(schema.patents)
                   ELSE {{}}
    /\ seq_patents = Cardinality(patents)
    /\ events = <<>>
    /\ continuity = <<>>
    /\ documents = <<>>
    /\ assignments = <<>>
    /\ settings = [k \in {"poll_delay_seconds"} |-> <<>>]
    /\ locked = FALSE
    /\ now = 0
    /\ running = FALSE
    /\ thread = <<>>
    /\ wait = [t \in LoopThreads |-> NoWait]
    /\ pc = [t \in Threads |-> "idle"]
    /\ upd = [t \in Threads |-> NoUpdate]
    /\ poll = [t \in Threads |-> NoPoll]
    /\ last = [op |-> "", args |-> <<>>, result |-> <<>>]
    /\ calls = 0
    /\ interval_minutes = DefaultInterval
    /\ on_update = TRUE
    /\ on_error = TRUE
    /\ notified = [l \in LoopThreads |-> <<>>]
    /\ api_key = <<>>

NextSchema ==
    \/ InitDatabase /\ UNCHANGED calls
    \/ MigrateDatabase /\ UNCHANGED calls

SpecSchema == InitSchema /\ [][NextSchema]_vars

(***************************************************************************)
(* Table preferences: validate_table_preferences on preference dicts with  *)
(* each key absent, of the wrong type, or holding known and unknown column *)
(* keys; and the preferences of a table loaded from the settings, with a   *)
(* list of an earlier version under "patents_columns" or none, before and  *)
(* after preferences are saved.                                            *)
(***************************************************************************)
MaxVisible == 3     \* entries of visible_columns in a preference dict

PrefEntries == {JStr("title"), JStr("filing_date"), JStr("status"),
                JStr("zz"), JInt(3)}

VisibleChoices ==
    {<<>>, <<JStr("title")>>} \cup
    {<<JList(l)>> : l \in SeqsUpTo(PrefEntries, MaxVisible)}

WidthChoices ==
    {<<>>, <<JList(<<JInt(1)>>)>>} \cup
    {<<JDict(items)>> : items \in
        {<<>>,
         << <<"title", JInt(120)>> >>,
         << <<"title", JInt(0)>> >>,
         << <<"title", JInt(0 - 3)>> >>,
         << <<"title", JBool(TRUE)>> >>,
         << <<"title", JBool(FALSE)>> >>,
         << <<"title", JStr("120")>> >>,
         << <<"zz", JInt(5)>>, <<"filing_date", JInt(80)>> >>}}

SortChoices == {<<>>, <<JNull>>, <<JStr("title")>>, <<JStr("zz")>>, <<JInt(1)>>}

AscendingChoices == {<<>>, <<JBool(FALSE)>>, <<JInt(0)>>}

\* The dict of the keys that are given.
Item(key, choice) == IF choice = <<>> THEN <<>> ELSE << <<key, choice[1]>> >>

PrefsOf(visible, widths, sort, ascending) ==
    JDict(Item("visible_columns", visible) \o Item("column_widths", widths)
          \o Item("sort_column", sort) \o Item("sort_ascending", ascending))

PrefInputs ==
    {PrefsOf(v, w, s, a) : v \in VisibleChoices, w \in WidthChoices,
                           s \in SortChoices, a \in AscendingChoices}

\* The schema of the program and the schema of a version without the
\* expiration column.
ColumnSchemas ==
    {PATENT_COLUMNS,
     SelectSeq(PATENT_COLUMNS, LAMBDA c : c.key # "expiration_date")}

TableIds == {"patents", "events"}

MaxLegacy == 2      \* names in the list an earlier version stored

\* The lists of column names an earlier version stored.
LegacyLists ==
    SeqsUpTo({"status", "expiration", "title", "filing_date", "zz"}, MaxLegacy)

LegacyBlobs ==
    {<<>>} \cup
    {<<json_dumps(JList([i \in 1..Len(l) |-> JStr(l[i])]))>> : l \in LegacyLists}

\* What _save_preferences stores.
SavedPrefs ==
    {PrefsOf(<<JList(<<JStr("filing_date")>>)>>,
             <<JDict(<< <<"filing_date", JInt(80)>> >>)>>,
             <<JStr("filing_date")>>, <<JBool(FALSE)>>),
     PrefsOf(<<JList(<<JStr("title"), JStr("current_status")>>)>>,
             <<JDict(<<>>)>>, <<JNull>>, <<JBool(TRUE)>>)}

InitPrefs ==
    /\ \E legacy \in LegacyBlobs :
        settings = [k \in {"poll_delay_seconds", "patents_table_prefs",
                           "events_table_prefs", "patents_columns"} |->
                        IF k = "patents_columns" THEN legacy ELSE <<>>]
    /\ patents = {}
    /\ seq_patents = 0
    /\ events = <<>>
    /\ continuity = <<>>
    /\ documents = <<>>
    /\ assignments = <<>>
    /\ locked = FALSE
    /\ now = 0
    /\ running = FALSE
    /\ thread = <<>>
    /\ wait = [t \in LoopThreads |-> NoWait]
    /\ pc = [t \in Threads |-> "idle"]
    /\ upd = [t \in Threads |-> NoUpdate]
    /\ poll = [t \in Threads |-> NoPoll]
    /\ last = [op |-> "", args |-> <<>>, result |-> <<>>]
    /\ calls = 0
    /\ interval_minutes = DefaultInterval
    /\ on_update = TRUE
    /\ on_error = TRUE
    /\ notified = [l \in LoopThreads |-> <<>>]
    /\ api_key = <<>>
    /\ schema = CurrentSchema

NextPrefs ==
    \/ LoadPreferences(TableIds, ColumnSchemas) /\ UNCHANGED calls
    \/ SavePreferences(TableIds, SavedPrefs) /\ UNCHANGED calls

SpecPrefs == InitPrefs /\ [][NextPrefs]_vars

\* The first call the UI thread makes.
First(op) == last.op = "" /\ op /\ UNCHANGED calls

\* validate_table_preferences applied to any of the preference dicts and
\* either schema.
NextValidate ==
    First(ValidateTablePreferences(PrefInputs, ColumnSchemas))

SpecValidate == Init /\ [][NextValidate]_vars

(***************************************************************************)
(* Display format: format_app_number on identifiers of up to MaxDigits     *)
(* characters into which up to MaxSeparators slashes, spaces and commas    *)
(* are written at any places, the display format itself among them.        *)
(***************************************************************************)
MaxDigits == 9          \* characters of an identifier that are no separators
MaxSeparators == 2      \* separators written into an identifier

SeparatorChars == {"/", " ", ","}

\* The first n characters of an identifier; a letter stands for any
\* character that is no digit and no separator.
Digits(n) == SubSeq(<<"1", "7", "9", "4", "0", "1", "4", "2", "A", "5", "6">>, 1, n)

RECURSIVE WithSeparators(_, _)
WithSeparators(S, n) ==
    IF n = 0 THEN S
    ELSE WithSeparators(
            S \cup UNION {{SubSeq(s, 1, i) \o <<ch>> \o SubSeq(s, i + 1, Len(s)) :
                                i \in 0..Len(s), ch \in SeparatorChars} : s \in S},
            n - 1)

FormatInputs ==
    WithSeparators({Digits(n) : n \in 0..MaxDigits}, MaxSeparators)

NextFormat ==
    First(FormatAppNumber(FormatInputs))

SpecFormat == Init /\ [][NextFormat]_vars

(***************************************************************************)
(* Expiration: calculate_expiration_date on every text of three numbers    *)
(* with a year of ExpiryYears, a month of 0..13 and a day of 0..32 (dates  *)
(* and texts strptime rejects), on texts of another shape and on no text,  *)
(* with adjustments of no, a few and a month of days.                      *)
(***************************************************************************)
MaxPtaDays == 2     \* the adjustments of a few days

ExpiryYears == {2000, 2003, 2079, 2080}

FilingTexts ==
    {<<>>, <<2080>>, <<2080, 2>>} \cup
    {<<y, m, d>> : y \in ExpiryYears, m \in 0..13, d \in 0..32}

PtaDays == ((0 - 1)..MaxPtaDays) \cup {31}

NextExpiry ==
    First(CalculateExpirationDate(FilingTexts, PtaDays))

SpecExpiry == Init /\ [][NextExpiry]_vars

(***************************************************************************)
(* The background loop with its callbacks: a PollingService built with     *)
(* any of its two callbacks set or left None, callbacks that may raise,    *)
(* and a poll_now that may raise, over up to two tracked applications; a   *)
(* key is stored.                                                          *)
(***************************************************************************)
CallbackFaults == {"on_update", "on_error", "handler"}

LoopRaws == {<<"1">>, <<"2">>}

InitLoop ==
    /\ patents = {}
    /\ events = <<>>
    /\ continuity = <<>>
    /\ documents = <<>>
    /\ assignments = <<>>
    /\ settings = [k \in {"poll_delay_seconds"} |-> <<>>]
    /\ seq_patents = 0
    /\ locked = FALSE
    /\ now = 0
    /\ running = FALSE
    /\ thread = <<>>
    /\ wait = [t \in LoopThreads |-> NoWait]
    /\ pc = [t \in Threads |-> "idle"]
    /\ upd = [t \in Threads |-> NoUpdate]
    /\ poll = [t \in Threads |-> NoPoll]
    /\ last = [op |-> "", args |-> <<>>, result |-> <<>>]
    /\ calls = 0
    /\ interval_minutes = DefaultInterval
    /\ api_key = <<"k">>
    /\ schema = CurrentSchema
    /\ on_update \in BOOLEAN
    /\ on_error \in BOOLEAN
    /\ notified = [l \in LoopThreads |-> <<>>]

LoopThreadStep(l) ==
    \/ LoopTest(l)
    \/ PollRaise(l)
    \/ Notify(l, SUBSET CallbackFaults)
    \/ WaitBegin(l)
    \/ Wait(l)
    \/ Sleep(l)
    \/ EngineStep(l, ConcApplicationResponses, Down, Down, Down, Down, Down, Down)

NextLoop ==
    \/ Call(AddPatent(LoopRaws, Cardinality(LoopRaws)))
    \/ Call(start({DefaultInterval}))
    \/ Call(stop)
    \/ Join
    \/ \E l \in LoopThreads : LoopThreadStep(l)

SpecLoop == InitLoop /\ [][NextLoop]_vars

(***************************************************************************)
(* Two synchronizations of one record at once: the UI thread refreshes    *)
(* the record while the refresh thread runs a batch over it, the required  *)
(* endpoint answering each with one event, dated or with a null date.      *)
(***************************************************************************)
RaceApplicationResponses ==
    {Ok([count |-> 1, patentFileWrapperDataBag |-> <<Wrapper("T1", <<>>, <<e>>)>>]) :
        e \in RawEvents}

RaceRaws == {<<"1">>}

NextRace ==
    \/ Call(AddPatent(RaceRaws, MaxPatentId))
    \/ Call(RefreshSingle(RaceRaws))
    \/ Call(RefreshClick)
    \/ \E t \in {"main", "refresh"} :
        EngineStep(t, RaceApplicationResponses, Down, Down, Down, Down, Down, Down)

SpecRace == Init /\ [][NextRace]_vars

(***************************************************************************)
(* A record removed while its synchronization is in flight: the UI thread  *)
(* adds and removes the one application, up to MaxCalls calls in all,      *)
(* while the refresh thread runs batches whose optional endpoints answer   *)
(* with snapshots or fail.                                                 *)
(***************************************************************************)
OrphanRaws == {<<"1">>}

NextOrphan ==
    \/ Call(AddPatent(OrphanRaws, MaxPatentId))
    \/ Call(RemovePatent(OrphanRaws))
    \/ Call(RefreshClick)
    \/ EngineStep("refresh", RemoveApplicationResponses, Down,
                  Down \cup RemoveContinuityResponses,
                  Down \cup RemoveDocumentsResponses,
                  Down \cup RemoveAssignmentResponses, Down, Down)

SpecOrphan == Init /\ [][NextOrphan]_vars

(***************************************************************************)
(* Properties.                                                             *)
(***************************************************************************)
IsPrefix(a, b) == Len(a) <= Len(b) /\ \A i \in 1..Len(a) : a[i] = b[i]

\* A step in which the UI thread's call `op` returned.
Called(op) == last' # last /\ last'.op = op /\ last'.result # <<>>

\* What an event row says apart from its unacknowledged flag.
EventFact(e) ==
    [patent_id |-> e.patent_id, event_code |-> e.event_code,
     event_description |-> e.event_description, event_date |-> e.event_date,
     first_seen |-> e.first_seen]

Facts(tbl) == [i \in 1..Len(tbl) |-> EventFact(tbl[i])]

\* C1: add_event is idempotent on (record, code, date).  A call for a
\* tracked record returns true exactly when no row had the key, and leaves
\* exactly one row with the key; a second call with the same key right after
\* returns false and leaves the ledger as it is.
C1_AddEventIdempotent ==
    [][Called("add_event") =>
        LET patent_id == last'.args[1]
            code == last'.args[2]
            date == last'.args[3]
        IN /\ last'.result[1] = (EventKeyRows(events, patent_id, code, date) = <<>>)
           /\ Len(EventKeyRows(events', patent_id, code, date)) = 1
           /\ (last.op = "add_event" /\ last.args = last'.args) =>
                 (last'.result[1] = FALSE /\ events' = events)]_vars

\* C2: the event ledger is append-only.  In every step the facts stored
\* for the records that stay tracked are kept, in order and unchanged, and an
\* ingestion step for a key that is already stored changes nothing.
C2_LedgerAppendOnly ==
    [][/\ IsPrefix(Facts(SelectSeq(events, LAMBDA e : e.patent_id \in PatentIds')),
                   Facts(events'))
       /\ \A t \in Threads :
            (pc[t] = "add_event" /\ upd'[t].i = upd[t].i + 1) =>
                LET e == upd[t].events[upd'[t].i]
                IN EventKeyRows(events, upd[t].patent_id, e.event_code,
                                e.event_date) # <<>>
                   => events' = events]_vars

\* The exception of a synchronization by t reached its caller in this step.
Raises(t) ==
    /\ upd[t].status = "running"
    /\ upd'[t] = NoUpdate
    /\ IF InPoll(t)
       THEN /\ Len(poll'[t].errors) = Len(poll[t].errors) + 1
            /\ poll'[t].errors[Len(poll'[t].errors)].application_number
                  = upd[t].app_num
       ELSE /\ last'.op = "refresh_single_patent"
            /\ last'.result # <<>> /\ last'.result[1] = "raise"

\* The synchronization by t returned normally in this step.
Returns(t) ==
    /\ upd[t].status = "running"
    /\ upd'[t] = NoUpdate
    /\ IF InPoll(t)
       THEN poll'[t].errors = poll[t].errors
       ELSE /\ last'.op = "refresh_single_patent"
            /\ last'.result # <<>> /\ last'.result[1] = "return"

AfterApplication ==
    {"fetch_adjustment", "fetch_continuity", "fetch_documents",
     "fetch_assignment", "fetch_attorney", "fetch_foreign_priority",
     "update_patent", "add_event"}

\* C3: the step that fetches the required endpoint either yields parsed
\* application data, or raises with the store (record, events, continuity,
\* documents, assignments) exactly as it was and no optional endpoint
\* fetched; no later step of a synchronization runs without parsed data.
C3_RequiredFailureWritesNothing ==
    [][\A t \in Threads :
        /\ (pc[t] = "fetch_application" /\ pc'[t] # pc[t]) =>
              /\ upd[t].fetched = {} /\ upd[t].writes = 0
              /\ \/ /\ pc'[t] = "fetch_adjustment"
                    /\ upd'[t].metadata # <<>>
                    /\ upd'[t].fetched = {"application"}
                 \/ /\ Raises(t)
                    /\ UNCHANGED store
        /\ pc[t] \in AfterApplication =>
              upd[t].metadata # <<>> /\ "application" \notin upd[t].failed]_vars

\* C3 witness: a batch has an error entry for a record whose required fetch
\* failed, with events of that record in the ledger.
C3_Witness ==
    \E t \in Threads :
        /\ InPoll(t) /\ pc[t] = "poll_next"
        /\ poll[t].errors # <<>>
        /\ \E k \in 1..Len(events) :
              \E r \in patents :
                  /\ r.id = events[k].patent_id
                  /\ r.application_number = poll[t].errors[1].application_number

\* The program position after each optional try block.
AfterBlock ==
    [fetch_adjustment |-> "fetch_continuity", fetch_continuity |-> "fetch_documents",
     fetch_documents |-> "fetch_assignment", fetch_assignment |-> "fetch_attorney",
     fetch_attorney |-> "fetch_foreign_priority",
     fetch_foreign_priority |-> "update_patent"]

\* Every parsed event of the synchronization by t has its row in the ledger.
AllIngested(t) ==
    \A k \in 1..Len(upd[t].events) :
        EventKeyRows(events', upd[t].patent_id, upd[t].events[k].event_code,
                     upd[t].events[k].event_date) # <<>>

\* C4: whatever subset of the optional endpoints fails, by an API error or
\* by any other exception, each optional block hands over to the next one,
\* and the synchronization returns normally with all seven endpoints
\* attempted, the one consolidated record write done and every parsed event
\* ingested.
C4_OptionalFailuresAreContained ==
    [][\A t \in Threads :
        /\ (pc[t] \in DOMAIN AfterBlock /\ pc'[t] # pc[t]) =>
              /\ pc'[t] = AfterBlock[pc[t]]
              /\ upd'[t].status = "running"
        /\ (upd[t].status = "running" /\ upd'[t] = NoUpdate
            /\ pc[t] # "fetch_application") =>
              /\ Returns(t)
              /\ upd[t].fetched = Endpoints
              /\ upd[t].failed \subseteq OptionalEndpoints
              /\ upd[t].writes = 1
              /\ upd[t].i = Len(upd[t].events)
              /\ AllIngested(t)]_vars

\* C5: success or failure is decided by the required endpoint alone.  An
\* exception leaves a synchronization, and an error entry enters a batch
\* result, only in the step that fetches the required endpoint; a batch
\* reports one error per record that did not return, and its success flag is
\* computed from that count.
C5_RequiredEndpointDecides ==
    [][/\ \A t \in Threads :
            /\ Raises(t) => pc[t] = "fetch_application"
            /\ poll'[t].status = "running" /\ poll[t].status = "running"
               /\ poll'[t].errors # poll[t].errors
               => pc[t] = "fetch_application" /\ Raises(t)
       /\ Called("poll_now") =>
            LET total == last'.args[1]
                returned == last'.args[2]
                result == last'.result[1]
            IN /\ Len(result.errors) = total - returned
               /\ result.success = (returned > 0 \/ total = 0)]_vars

SnapshotStep(t, position, endpoint) ==
    /\ pc[t] = position
    /\ endpoint \in upd'[t].fetched \ upd'[t].failed

\* C6: a snapshot table changes only in the step of a synchronization whose
\* fetch of that endpoint succeeded and whose rows were stored, or when a
\* record is removed; when the endpoint failed the table is exactly as it
\* was.
C6_FailedSnapshotUnchanged ==
    [][\/ Called("remove_patent")
       \/ /\ continuity' # continuity =>
                \E t \in Threads : SnapshotStep(t, "fetch_continuity", "continuity")
          /\ documents' # documents =>
                \E t \in Threads : SnapshotStep(t, "fetch_documents", "documents")
          /\ assignments' # assignments =>
                \E t \in Threads : SnapshotStep(t, "fetch_assignment", "assignment")]_vars

\* C6 witness: the three snapshot fetches of a synchronization have failed
\* and the record still has its rows in the three tables.
C6_Witness ==
    \E t \in Threads :
        /\ pc[t] = "fetch_attorney"
        /\ {"continuity", "documents", "assignment"} \subseteq upd[t].failed
        /\ \E k \in 1..Len(continuity) : continuity[k].patent_id = upd[t].patent_id
        /\ \E k \in 1..Len(documents) : documents[k].patent_id = upd[t].patent_id
        /\ \E k \in 1..Len(assignments) : assignments[k].patent_id = upd[t].patent_id

\* C7 as stated: the success flag of every batch, a batch over zero
\* records included, equals (error entries < records tracked).
C7_SuccessIsErrorsBelowTotal ==
    [][Called("poll_now") =>
        last'.result[1].success = (Len(last'.result[1].errors) < last'.args[1])]_vars

\* C7: the success flag of a batch is true when the batch has no error
\* entry, a batch over zero records included, and otherwise equals
\* (error entries < records tracked).
C7_SuccessFlag ==
    [][Called("poll_now") =>
        LET result == last'.result[1]
            total == last'.args[1]
        IN /\ Len(result.errors) <= total
           /\ result.success =
                 IF total = 0 THEN TRUE ELSE Len(result.errors) < total]_vars

\* C7 witness: a batch over zero tracked records has returned success.
C7_Witness ==
    /\ last.op = "poll_now" /\ last.result # <<>>
    /\ last.args[1] = 0
    /\ last.result[1].success

Sorted(list) ==
    \A k \in 1..(Len(list) - 1) :
        /\ TextLeq(list[k].application_number, list[k + 1].application_number)
        /\ list[k].application_number # list[k + 1].application_number

InFlight == {t \in Threads : InPoll(t) \/ upd[t].status = "running"}

\* C9: at most one sync_all / sync_record execution is in flight at any
\* time: an on-demand synchronization requested while the scheduled loop's
\* batch runs is rejected or waits, their steps are never interleaved.
C9_AtMostOneSyncInFlight == Cardinality(InFlight) <= 1

\* The background loops that are alive: started and not yet ended.
AliveLoops == {l \in LoopThreads : pc[l] # "idle"}

\* C10: after any interleaving of start(), stop() and steps of the
\* background loop, stop() returning before the loop has observed the
\* cancellation flag included, at most one background loop is alive.
C10_AtMostOneLoopAlive == Cardinality(AliveLoops) <= 1

\* A step in which the UI thread made the call `op` while threads run.
Calls(op) == calls' = calls + 1 /\ last'.op = op

\* C11: start(interval_minutes) called while the scheduler is running is a
\* no-op: no loop is launched, the running flag, the thread and the
\* configured interval are as they were.  Called while idle it sets the
\* flag and launches exactly one background loop, which was not alive.
C11_StartIsNoOpWhenRunning ==
    [][Calls("start") =>
        IF running
        THEN /\ UNCHANGED <<running, thread, interval_minutes, wait>>
             /\ \A l \in LoopThreads : pc'[l] = pc[l]
        ELSE /\ running'
             /\ thread' # <<>> /\ thread'[1] \in LoopThreads \ AliveLoops
             /\ AliveLoops' = AliveLoops \cup {thread'[1]}
             /\ pc'[thread'[1]] = "loop_test"]_vars

\* C11 witness: start was called with another interval while the scheduler
\* was running, and the interval and the one loop are as they were.
C11_Witness ==
    /\ last.op = "start"
    /\ last.args[1] \notin {0, interval_minutes}
    /\ running /\ thread # <<>>
    /\ Cardinality(AliveLoops) = 1

\* stop() is waiting in its join.
Stopping == pc["main"] = "join"

InWait(l) == pc[l] \in {"wait", "sleep"}

\* C13: with the flag down, a loop in its wait phase starts no sleep
\* increment (the one in progress is the last), leaves the wait loop at
\* its next test whatever the length of the interval, starts no batch, and
\* exits unless start() raises the flag again first.
C13_StopEndsWaitWithinOneIncrement ==
    /\ [][\A l \in LoopThreads :
            /\ (pc'[l] = "sleep" /\ pc[l] # "sleep") => running
            /\ (pc[l] = "wait" /\ pc'[l] # "wait" /\ ~running) =>
                  pc'[l] = "loop_test"
            /\ (pc[l] = "loop_test" /\ pc'[l] # "loop_test" /\ ~running) =>
                  pc'[l] = "idle"
            /\ (pc'[l] = "poll_now" /\ pc[l] # "poll_now") => running]_vars
    /\ \A l \in LoopThreads :
          (InWait(l) /\ ~running) ~> (pc[l] = "idle" \/ running)

\* C13 witness: stop() was called while the loop sleeps in the wait of the
\* longer interval, with most of that interval still to go.
C13_Witness ==
    /\ last.op = "stop"
    /\ ~running
    /\ \E l \in LoopThreads :
          /\ pc[l] = "sleep"
          /\ wait[l].passes = WaitPasses(DefaultInterval + 1)
          /\ wait[l].done = 1

\* The rows of a table that belong to one record, and the rows of the others.
RowsOf(tbl, patent_id) == SelectSeq(tbl, LAMBDA r : r.patent_id = patent_id)
RowsOfOthers(tbl, patent_id) == SelectSeq(tbl, LAMBDA r : r.patent_id # patent_id)

\* The rows the assignments table has for a payload.
AssignmentRows(patent_id, assigns) ==
    [i \in 1..Len(assigns) |->
        [patent_id |-> patent_id, reel_frame |-> assigns[i].reel_frame]]

\* The step of the synchronization by t whose fetch of `endpoint` succeeded.
FetchSucceeded(t, position, endpoint) ==
    /\ pc[t] = position /\ pc'[t] # position
    /\ endpoint \in DOMAIN upd'[t].payload

\* C14: when the continuity (the assignment) fetch of a synchronization
\* succeeded, the rows stored for the record are exactly the rows of the
\* fetched payload, the prior rows are gone, and the rows of the other
\* records are as they were.
C14_SnapshotIsFetchedPayload ==
    [][\A t \in Threads :
        /\ FetchSucceeded(t, "fetch_continuity", "continuity") =>
              /\ RowsOf(continuity', upd[t].patent_id) =
                    ContinuityRows(upd[t].patent_id,
                                   upd'[t].payload["continuity"].parents,
                                   upd'[t].payload["continuity"].children)
              /\ RowsOfOthers(continuity', upd[t].patent_id) =
                    RowsOfOthers(continuity, upd[t].patent_id)
        /\ FetchSucceeded(t, "fetch_assignment", "assignment") =>
              /\ RowsOf(assignments', upd[t].patent_id) =
                    AssignmentRows(upd[t].patent_id, upd'[t].payload["assignment"])
              /\ RowsOfOthers(assignments', upd[t].patent_id) =
                    RowsOfOthers(assignments, upd[t].patent_id)]_vars

\* The documents of a payload as the rows they are stored in.
DocumentRows(patent_id, docs) ==
    {[patent_id |-> patent_id, document_identifier |-> docs[i].document_id,
      document_code |-> docs[i].document_code] : i \in 1..Len(docs)}

\* C15: when the documents fetch of a synchronization succeeded, the
\* documents stored for the record are exactly the documents of the fetched
\* payload, none that is absent from it, with at most one row for each
\* (record, document identifier).
C15_DocumentsWhollyReplaced ==
    [][\A t \in Threads :
        FetchSucceeded(t, "fetch_documents", "documents") =>
            LET rows == RowsOf(documents', upd[t].patent_id)
            IN /\ Range(rows) =
                     DocumentRows(upd[t].patent_id, upd'[t].payload["documents"])
               /\ \A i, j \in 1..Len(rows) :
                     rows[i].document_identifier = rows[j].document_identifier
                        => i = j]_vars

\* The tables of rows that belong to a record.
Dependents == <<events, continuity, documents, assignments>>

\* C16: when remove_patent returns true, the record with the normalized
\* identifier is gone, no row of the four dependent tables carries its id,
\* and the other records and their rows are as they were; remove_patent of
\* an identifier that is not tracked returns false and changes nothing.
C16_RemoveCascades ==
    [][Called("remove_patent") /\ Len(last'.result) = 1 =>
        LET app_num == normalize_app_number(last'.args[1])
            rows == PatentRows(app_num)
        IN /\ last'.result = <<rows # {}>>
           /\ IF rows = {}
              THEN UNCHANGED store
              ELSE LET patent_id == (CHOOSE r \in rows : TRUE).id
                   IN /\ patents' = patents \ rows
                      /\ \A r \in patents' : r.application_number # app_num
                      /\ \A k \in 1..4 :
                            /\ RowsOf(Dependents'[k], patent_id) = <<>>
                            /\ Dependents'[k] =
                                  RowsOfOthers(Dependents[k], patent_id)]_vars

\* C16 witness: the first of two synchronized records has been removed
\* under a formatted identifier; the second is there with its rows in the
\* four tables.
C16_Witness ==
    /\ last.op = "remove_patent" /\ last.args = <<<<"1", "/">>>>
    /\ last.result = <<TRUE>>
    /\ seq_patents = 2
    /\ \E r \in patents :
          /\ patents = {r} /\ r.id = 2
          /\ \A k \in 1..4 : RowsOf(Dependents[k], 2) # <<>>

(***************************************************************************)
(* C17: mark_events_seen(patent_id) sets is_new to 0 on every event of     *)
(* that patent, whatever it was, changes no event of another patent and    *)
(* no other field of any event, and nothing else in the store.             *)
(***************************************************************************)
OtherFields(e) == [e EXCEPT !.is_new = 0]

C17_MarkSeenFrame ==
    [][Called("mark_events_seen") /\ last'.result = <<"return">> =>
        LET patent_id == last'.args[1]
        IN /\ Len(events') = Len(events)
           /\ \A k \in 1..Len(events) :
                 /\ OtherFields(events'[k]) = OtherFields(events[k])
                 /\ events'[k].is_new =
                       IF events[k].patent_id = patent_id
                       THEN 0 ELSE events[k].is_new
           /\ UNCHANGED <<patents, continuity, documents, assignments,
                          settings, seq_patents>>]_vars

\* The patent just marked has several events, all seen, next to an unseen
\* event of another patent.
C17_Witness ==
    /\ last.op = "mark_events_seen"
    /\ last.result = <<"return">>
    /\ Len(RowsOf(events, last.args[1])) >= 2
    /\ \A k \in 1..Len(events) :
          events[k].patent_id = last.args[1] => events[k].is_new = 0
    /\ \E k \in 1..Len(events) :
          events[k].patent_id # last.args[1] /\ events[k].is_new = 1

(***************************************************************************)
(* C18: an event row is created with is_new = 1, and is_new changes only   *)
(* through mark_events_seen, which sets it to 0: no synchronization and no *)
(* add_event, of a fact already stored included, sets it back to 1.        *)
(***************************************************************************)
\* The rows of a step's first state whose patent stays tracked.
Kept == SelectSeq(events, LAMBDA e : e.patent_id \in PatentIds')

C18_FlagOnlyClearedByMark ==
    [][/\ Len(events') >= Len(Kept)
       /\ \A k \in 1..Len(events') :
             IF k <= Len(Kept)
             THEN /\ EventFact(events'[k]) = EventFact(Kept[k])
                  /\ events'[k].is_new # Kept[k].is_new =>
                        /\ events'[k].is_new = 0
                        /\ Called("mark_events_seen")
             ELSE events'[k].is_new = 1]_vars

\* A synchronization has returned that found facts, all of them stored
\* before and seen, and they are still seen.
C18_Witness ==
    /\ last.op = "refresh_single_patent"
    /\ Len(last.result) = 3
    /\ last.result[2] = <<>>
    /\ last.result[3] >= 1
    /\ events # <<>>
    /\ \A k \in 1..Len(events) : events[k].is_new = 0

(***************************************************************************)
(* C19: no two patents share a normalized application number.  add_patent  *)
(* of a number whose normalized form (slashes, spaces and commas taken     *)
(* out) is tracked returns None and leaves the store as it is, and         *)
(* get_patent_by_app_number, update_patent and remove_patent address the   *)
(* same patent under every formatting of its number.                       *)
(***************************************************************************)
Separators == {"/", " ", ","}

RECURSIVE Stripped(_)
Stripped(text) ==
    IF text = <<>> THEN <<>>
    ELSE IF Head(text) \in Separators THEN Stripped(Tail(text))
         ELSE <<Head(text)>> \o Stripped(Tail(text))

\* The patents that a formatting of an application number stands for.
Tracked(raw) ==
    {p \in patents : Stripped(p.application_number) = Stripped(raw)}

Retitled(p) == [p EXCEPT !.cols.title = <<"T9">>]

C19_OnePatentPerIdentifier ==
    /\ [](/\ \A p, q \in patents :
              Stripped(p.application_number) = Stripped(q.application_number)
                  => p = q
          /\ \A raw \in RemoveRaws :
               /\ Range(get_patent_by_app_number(raw)) = Tracked(raw)
               /\ update_patent_db(raw, [title |-> "T9"]) =
                     {IF p \in Tracked(raw) THEN Retitled(p) ELSE p :
                         p \in patents})
    /\ [][/\ (/\ last' # last
              /\ last'.op = "add_patent"
              /\ Len(last'.result) <= 1
              /\ Tracked(last'.args[1]) # {}) =>
                  last'.result = <<>> /\ UNCHANGED store
          /\ (Called("remove_patent") /\ Len(last'.result) = 1) =>
                  /\ patents' = patents \ Tracked(last'.args[1])
                  /\ last'.result = <<Tracked(last'.args[1]) # {}>>]_vars

\* add_patent of "2," has returned None while "2" is tracked next to "1".
C19_Witness ==
    /\ last.op = "add_patent"
    /\ last.args = <<(<<"2", ",">>)>>
    /\ last.result = <<>>
    /\ {p.application_number : p \in patents} = {<<"1">>, <<"2">>}

(***************************************************************************)
(* C20: a synchronization that succeeds returns as new_events the parsed   *)
(* facts whose (patent, code, date) was not in the ledger when they were   *)
(* ingested, in the order of the response, and as total_events the number  *)
(* of facts of the response; so a second synchronization against the same  *)
(* remote data returns no new event and leaves the ledger as it is.        *)
(***************************************************************************)
C20_NewEventsAreTheFactsNotStored ==
    [][\A t \in Threads :
        /\ (pc[t] = "add_event" /\ upd'[t].i = upd[t].i + 1) =>
              LET e == upd[t].events[upd'[t].i]
                  stored == EventKeyRows(events, upd[t].patent_id,
                                         e.event_code, e.event_date) # <<>>
              IN /\ upd'[t].new_events =
                       IF stored THEN upd[t].new_events
                       ELSE Append(upd[t].new_events, e)
                 /\ stored => events' = events
        /\ (Returns(t) /\ ~InPoll(t)) =>
              last'.result = <<"return", upd[t].new_events, Len(upd[t].events)>>]_vars

(***************************************************************************)
(* C21: update_patent applies the names of the allow-list and drops every  *)
(* other name without an error: no name makes the call raise, no call      *)
(* changes the id, the application number or the creation time of a        *)
(* patent, the call sets the allowed columns it names on the patent it     *)
(* addresses and nothing else, and a call whose names are all dropped      *)
(* writes nothing.                                                         *)
(***************************************************************************)
Identity(p) ==
    [id |-> p.id, application_number |-> p.application_number,
     created_at |-> p.created_at]

C21_UpdateAppliesAllowedFieldsOnly ==
    [][Called("update_patent") =>
        LET app_num == normalize_app_number(last'.args[1])
            kwargs == last'.args[2]
            applied == DOMAIN kwargs \cap allowed_fields
        IN /\ last'.result \in {<<"return">>, <<"raise", "OperationalError">>}
           /\ Cardinality(patents') = Cardinality(patents)
           /\ \A p \in patents : \E q \in patents' :
                 /\ Identity(q) = Identity(p)
                 /\ \A c \in allowed_fields :
                       q.cols[c] =
                          IF /\ last'.result = <<"return">>
                             /\ p.application_number = app_num
                             /\ c \in applied
                          THEN <<kwargs[c]>> ELSE p.cols[c]
           /\ applied = {} => UNCHANGED store
           /\ UNCHANGED <<events, continuity, documents, assignments,
                          settings, seq_patents>>]_vars

(***************************************************************************)
(* C22: with no key stored, each of the seven fetch operations raises      *)
(* USPTOApiError and no request is made, whatever the remote would have    *)
(* answered; so a synchronization that starts without a key raises that    *)
(* error to its caller and writes nothing, a batch records an error for    *)
(* the record, and an optional fetch is a failed one that stores nothing.  *)
(***************************************************************************)
\* The exception that reached the caller of t's synchronization is typed.
RaisesTyped(t) ==
    /\ Raises(t)
    /\ IF InPoll(t)
       THEN ~poll'[t].errors[Len(poll'[t].errors)].unexpected
       ELSE last'.result = <<"raise", "USPTOApiError">>

\* What the remote answers on the seven endpoints.
KeyResponses ==
    <<RemoveApplicationResponses, KeyAdjustmentResponses,
      RemoveContinuityResponses, RemoveDocumentsResponses,
      RemoveAssignmentResponses, KeyAttorneyResponses, KeyPriorityResponses>>

C22_NoCredentialNoRequest ==
    /\ [](get_api_key = <<>> =>
            /\ \A k \in 1..Len(KeyResponses) :
                  Answers(KeyResponses[k]) = {NoRequest}
            /\ {fetch_application(NoRequest), fetch_adjustment(NoRequest),
                 fetch_continuity(NoRequest), fetch_documents(NoRequest),
                 fetch_assignment(NoRequest), fetch_attorney(NoRequest),
                 fetch_foreign_priority(NoRequest)} = {Raised("USPTOApiError")})
    /\ [][get_api_key = <<>> =>
            \A t \in Threads :
               /\ (pc[t] = "fetch_application" /\ pc'[t] # pc[t]) =>
                      RaisesTyped(t) /\ UNCHANGED store
               /\ \A e \in OptionalEndpoints :
                     (pc[t] = "fetch_" \o e /\ pc'[t] # pc[t]) =>
                         /\ e \in upd'[t].failed
                         /\ upd'[t].update_fields = upd[t].update_fields
                         /\ UNCHANGED store]_vars

\* A batch over two tracked records has ended with an error for each while
\* no key is stored, and neither record was ever written.
C22_Witness ==
    /\ get_api_key = <<>>
    /\ last.op = "poll_now"
    /\ last.result # <<>>
    /\ Len(last.result[1].errors) = 2
    /\ Cardinality(patents) = 2
    /\ \A p \in patents : p.cols = NullColumns
    /\ events = <<>>

(***************************************************************************)
(* C23: a 404 from an optional endpoint is a fetch that succeeded with an  *)
(* empty payload: nothing is raised, the endpoint is not a failed one, and *)
(* for continuity and assignment the rows stored for the patent are        *)
(* replaced by none; a 404 from the required endpoint raises USPTOApiError *)
(* to the caller of the synchronization, and nothing is written.           *)
(***************************************************************************)
\* The request that t is about to make can only be answered with 404.
AnsweredNotFound(responses) == Answers(responses) = NotFound

C24_UntrackedRefreshRaises ==
    [][(/\ pc["main"] = "idle"
        /\ last' # last
        /\ last'.op = "refresh_single_patent"
        /\ PatentRows(last'.args[1]) = {}) =>
            /\ last'.result = <<"raise", "ValueError">>
            /\ UNCHANGED <<store, pc, upd, poll>>]_vars

\* The refresh of application 2 has raised while application 1 is tracked
\* and synchronized.
C24_Witness ==
    /\ last = [op |-> "refresh_single_patent", args |-> <<(<<"2">>)>>,
               result |-> <<"raise", "ValueError">>]
    /\ \E p \in patents : p.application_number = <<"1">> /\ p.cols.title # <<>>
    /\ PatentRows(<<"2">>) = {}
    /\ \A t \in Threads : pc[t] = "idle"

(***************************************************************************)
(* C25: schema bootstrap is idempotent and additive.  Every run of         *)
(* init_database or migrate_database returns without raising; the tables,  *)
(* the indexes and the columns of patents that were there are there after  *)
(* it, each column at its place with its name and type; every record that  *)
(* was there keeps its identity and the value of each column it had, and   *)
(* holds NULL in each column the run added; no record appears; and a run   *)
(* on a schema that is up to date changes nothing in the store.            *)
(***************************************************************************)
BootstrapOps == {"init_database", "migrate_database"}

UpToDate(s) ==
    /\ InitTables \cup MigrateTables \subseteq s.tables
    /\ InitIndexes \cup MigrateIndexes \subseteq s.indexes
    /\ ColumnNames(base_patent_columns \o new_patent_columns)
         \subseteq ColumnNames(s.patents)

\* Record q is record r after a run: same identity, same prior values, NULL
\* in the columns it did not have.
Migrated(r, q) ==
    /\ Identity(q) = Identity(r)
    /\ DOMAIN r.cols \subseteq DOMAIN q.cols
    /\ \A c \in DOMAIN r.cols : q.cols[c] = r.cols[c]
    /\ \A c \in DOMAIN q.cols \ DOMAIN r.cols : q.cols[c] = <<>>

C25_BootstrapIdempotentAdditive ==
    [][last'.op \in BootstrapOps =>
        /\ last'.result = <<"return">>
        /\ schema.tables \subseteq schema'.tables
        /\ schema.indexes \subseteq schema'.indexes
        /\ IsPrefix(schema.patents, schema'.patents)
        /\ \A r \in patents : \E q \in patents' : Migrated(r, q)
        /\ Cardinality(patents') = Cardinality(patents)
        /\ UNCHANGED <<events, continuity, documents, assignments, settings,
                       seq_patents>>
        /\ UpToDate(schema) => UNCHANGED <<schema, store>>]_vars

\* init_database has run on a table that lacked columns and held a record
\* with values: the record has its value and NULL in an added column.
C25_Witness ==
    /\ last.op = "init_database"
    /\ UpToDate(schema)
    /\ \E r \in patents : /\ r.cols["pta_total_days"] = <<1>>
                          /\ r.cols["assignment_bag"] = <<>>

(***************************************************************************)
(* C26: the preferences validate_table_preferences returns reference only  *)
(* columns of the schema: every entry of visible_columns is a schema key,  *)
(* every item of column_widths has a schema key and a positive integer as  *)
(* its value, and sort_column is None or a schema key.                     *)
(***************************************************************************)
Validated == last.op = "validate_table_preferences"

SchemaKeys(columns) == {columns[i].key : i \in 1..Len(columns)}

C26_ValidatedReferencesSchemaOnly ==
    Validated =>
        LET keys == SchemaKeys(last.args[2])
            result == last.result[1]
        IN /\ \A i \in 1..Len(result.visible_columns) :
                result.visible_columns[i] \in keys
           /\ \A i \in 1..Len(result.column_widths) :
                /\ result.column_widths[i][1] \in keys
                /\ result.column_widths[i][2][1] = "int"
                /\ result.column_widths[i][2][2] > 0
           /\ result.sort_column = <<>> \/ result.sort_column[1] \in keys

(***************************************************************************)
(* C27: in the result of validate_table_preferences the entries of the     *)
(* given visible_columns that are schema keys come first, in their order;  *)
(* then come the default-visible columns of the schema that are not among  *)
(* them, in schema order, each once; and when no given entry is a schema   *)
(* key the result is the default-visible columns in schema order.          *)
(***************************************************************************)
\* The entries of the given visible_columns that are keys of the schema.
Surviving(prefs, columns) ==
    LET given == DictGet(prefs, "visible_columns", JList(<<>>))
        kept == SelectSeq(IF given[1] = "list" THEN given[2] ELSE <<>>,
                          LAMBDA k : k[1] = "str" /\ k[2] \in SchemaKeys(columns))
    IN [i \in 1..Len(kept) |-> kept[i][2]]

C27_VisibleOrder ==
    Validated =>
        LET columns == last.args[2]
            surviving == Surviving(last.args[1], columns)
            visible == last.result[1].visible_columns
        IN IF surviving = <<>>
           THEN visible = DefaultVisible(columns)
           ELSE visible =
                    surviving \o SelectSeq(DefaultVisible(columns),
                                           LAMBDA k : k \notin Range(surviving))

\* An unknown entry was dropped from between two known ones, and the
\* default-visible columns the user had not chosen were appended.
C27_Witness ==
    /\ Validated
    /\ DictGet(last.args[1], "visible_columns", JNull) =
            JList(<<JStr("filing_date"), JStr("zz"), JStr("title")>>)
    /\ last.result[1].visible_columns =
            <<"filing_date", "title", "current_status", "expiration_date">>

(***************************************************************************)
(* C28: a list of column names stored under "patents_columns" is           *)
(* translated through the alias table before it is validated.  When the    *)
(* preferences of a table are loaded and validated: no visible column is   *)
(* an old alias; with no preferences stored under the table's own key, the *)
(* visible columns of the patents table begin with the names of the list,  *)
(* each alias replaced by its current field name, that the schema knows,   *)
(* in the order of the list; and with preferences stored under the table's *)
(* own key the result is what validating those gives, whatever the list.   *)
(***************************************************************************)
Loaded == last.op = "_load_preferences"

Aliases == {"status", "expiration"}

CurrentName(c) ==
    IF c = "status" THEN "current_status"
    ELSE IF c = "expiration" THEN "expiration_date" ELSE c

\* The names of the stored list, translated, that are keys of the schema.
TranslatedSurviving(columns) ==
    LET list == settings["patents_columns"][1][2][2]
        names == [i \in 1..Len(list) |-> CurrentName(list[i][2])]
    IN SelectSeq(names, LAMBDA k : k \in SchemaKeys(columns))

C28_LegacyListTranslated ==
    Loaded =>
        LET table_id == last.args[1]
            columns == last.args[2]
            stored == settings[table_id \o "_table_prefs"]
            result == last.result[1]
        IN /\ \A i \in 1..Len(result.visible_columns) :
                result.visible_columns[i] \notin Aliases
           /\ (stored = <<>> /\ table_id = "patents"
                    /\ settings["patents_columns"] # <<>>) =>
                /\ IsPrefix(TranslatedSurviving(columns), result.visible_columns)
                /\ result.column_widths = <<>>
           /\ (stored = <<>> /\ (table_id # "patents"
                    \/ settings["patents_columns"] = <<>>)) =>
                result = default_table_preferences(columns)
           /\ stored # <<>> =>
                result = validate_table_preferences(stored[1][2], columns)

\* The list ["status", "title"] of an earlier version was loaded with no
\* new preferences stored: the status column comes first under its current
\* name.
C28_Witness ==
    /\ Loaded
    /\ last.args[1] = "patents"
    /\ settings["patents_table_prefs"] = <<>>
    /\ settings["patents_columns"] =
            <<json_dumps(JList(<<JStr("status"), JStr("title")>>))>>
    /\ last.result[1].visible_columns =
            <<"current_status", "title", "expiration_date">>

(***************************************************************************)
(* C29: for every identifier x, normalizing the display format of the      *)
(* normalized x gives the normalized x; normalize_app_number is idempotent *)
(* and its result holds no slash, space or comma.  The display format of x *)
(* itself normalizes to the same.                                          *)
(***************************************************************************)
Formatted == last.op = "format_app_number"

C29_NormalizeFormatRoundTrip ==
    Formatted =>
        LET x == last.args[1]
            n == normalize_app_number(x)
        IN /\ normalize_app_number(format_app_number(n)) = n
           /\ normalize_app_number(last.result[1]) = n
           /\ normalize_app_number(n) = n
           /\ \A i \in 1..Len(n) : n[i] \notin Separators

\* A number written with separators at other places than the display
\* format's was formatted: 8 characters, slash after two, comma after five.
C29_Witness ==
    /\ Formatted
    /\ last.args[1] = <<"1", "7", "9", ",", "4", "0", " ", "1", "4", "2">>
    /\ last.result[1] = <<"1", "7", "/", "9", "4", "0", ",", "1", "4", "2">>

(***************************************************************************)
(* C30: calculate_expiration_date returns the filing date plus 20 calendar *)
(* years plus the adjustment days; the anniversary of a 29 February in a   *)
(* year that is not a leap year is 28 February, taken before the days are  *)
(* added (2080-02-29 with 0 days gives 2100-02-28); with no filing date or *)
(* one that is no date the result is empty, and nothing is raised.         *)
(***************************************************************************)
Expired == last.op = "calculate_expiration_date"

IsDate(t) ==
    /\ Len(t) = 3
    /\ t[2] \in 1..12
    /\ t[3] >= 1
    /\ t[3] <= (IF t[2] = 2 THEN (IF IsLeap(t[1]) THEN 29 ELSE 28)
                ELSE IF t[2] \in {4, 6, 9, 11} THEN 30 ELSE 31)

\* The days from 1 January of year 1 to the date d, counted in closed form.
DaysBefore(y, m) ==
    LET cumulative == <<0, 31, 59, 90, 120, 151, 181, 212, 243, 273, 304, 334>>
    IN cumulative[m] + (IF m > 2 /\ IsLeap(y) THEN 1 ELSE 0)

Ordinal(d) ==
    LET y == d[1] - 1
    IN 365 * y + (y \div 4) - (y \div 100) + (y \div 400)
       + DaysBefore(d[1], d[2]) + d[3]

Anniversary(f) ==
    IF f[2] = 2 /\ f[3] = 29 /\ ~IsLeap(f[1] + 20) THEN <<f[1] + 20, 2, 28>>
    ELSE <<f[1] + 20, f[2], f[3]>>

C30_ExpirationDate ==
    Expired =>
        LET filing_date == last.args[1]
            pta_days == last.args[2]
            expiration == last.result[1]
        IN /\ Len(last.result) = 1
           /\ ~IsDate(filing_date) => expiration = <<>>
           /\ IsDate(filing_date) =>
                /\ IsDate(expiration)
                /\ Ordinal(expiration) = Ordinal(Anniversary(filing_date)) + pta_days
           /\ (filing_date = <<2080, 2, 29>> /\ pta_days = 0) =>
                expiration = <<2100, 2, 28>>

\* The expiration of an application filed on 29 February 2080 with one day
\* of adjustment: 1 March 2100, the day after the clamped anniversary.
C30_Witness ==
    /\ Expired
    /\ last.args = << <<2080, 2, 29>>, 1 >>
    /\ last.result[1] = <<2100, 3, 1>>

(***************************************************************************)
(* The consolidated record write (polling.py lines 56-130).                *)
(***************************************************************************)
\* The optional endpoints whose try block ran to its end in the
\* synchronization by t.
Succeeded(t) == (upd[t].fetched \ upd[t].failed) \ {"application"}

\* The names an optional endpoint contributes to the record write.
EndpointFields(t, endpoint) ==
    CASE endpoint = "adjustment" ->
            IF upd[t].payload["adjustment"] = <<>> THEN {}
            ELSE {"pta_total_days", "expiration_date"}
      [] endpoint = "assignment" -> {"assignment_bag"}
      [] endpoint = "attorney" -> {"attorney_bag"}
      [] endpoint = "foreign_priority" -> {"foreign_priority_bag"}
      [] OTHER -> {}

\* The names of the merged field set of the synchronization by t.
MergedNames(t) ==
    DOMAIN upd[t].metadata[1] \cup {"last_checked"}
    \cup UNION {EndpointFields(t, e) : e \in Succeeded(t)}

\* The step of t is the record write of its synchronization.
WritesRecord(t) == pc[t] = "update_patent" /\ pc'[t] = "add_event"

\* C31: a synchronization that returns normally has made exactly one write
\* to the record's own fields, after all seven endpoints were attempted;
\* the write carries the required metadata, the check time and the fields
\* of every optional endpoint that succeeded, and no other name, and the
\* record's row holds these values after it.  No other step of a
\* synchronization changes a record's fields, and a synchronization that
\* raises at the required endpoint has written nothing.
C31_OneConsolidatedWrite ==
    [][\A t \in Threads :
        /\ Returns(t) => upd[t].writes = 1
        /\ upd'[t].writes # upd[t].writes /\ upd'[t] # NoUpdate => WritesRecord(t)
        /\ WritesRecord(t) =>
              /\ upd[t].writes = 0 /\ upd'[t].writes = 1
              /\ upd[t].fetched = Endpoints
              /\ DOMAIN upd[t].update_fields = MergedNames(t)
              /\ \A c \in DOMAIN upd[t].metadata[1] :
                    upd[t].update_fields[c] = upd[t].metadata[1][c]
              /\ \A p \in patents' :
                    p.application_number = upd[t].app_num =>
                        \A c \in MergedNames(t) :
                            p.cols[c] = <<upd[t].update_fields[c]>>
        /\ (upd[t].status = "running" /\ upd'[t] # upd[t] /\ ~WritesRecord(t))
              => patents' = patents
        /\ (pc[t] = "fetch_application" /\ Raises(t)) =>
              upd[t].writes = 0 /\ patents' = patents]_vars

\* C31 witness: a synchronization is about to return after its one write;
\* the adjustment and attorney blocks succeeded and the assignment block
\* failed, and the record's row holds the attorney text and the expiration
\* date while its assignment text was never written.
C31_Witness ==
    \E t \in Threads :
        /\ pc[t] = "add_event" /\ upd[t].i = Len(upd[t].events)
        /\ upd[t].writes = 1
        /\ {"adjustment", "attorney"} \subseteq Succeeded(t)
        /\ "assignment" \in upd[t].failed
        /\ \E p \in patents :
              /\ p.application_number = upd[t].app_num
              /\ p.cols.attorney_bag = <<upd[t].update_fields.attorney_bag>>
              /\ p.cols.expiration_date # <<>>
              /\ p.cols.assignment_bag = <<>>

(***************************************************************************)
(* The delay between the records of a batch (polling.py lines 234-264).    *)
(***************************************************************************)
\* The step of t takes the next record of its batch, one having been
\* processed before it.
TakesNextRecord(t) ==
    /\ InPoll(t) /\ pc[t] = "poll_next" /\ pc'[t] = "fetch_application"
    /\ poll[t].i >= 1

\* C32: in a batch, a delay step lies between the fetches of every two
\* records processed one after the other, whether the earlier one returned
\* or raised: when the loop takes its next record, it has slept once for
\* each record before it.  The delay is the persisted setting, or 1.0 when
\* the setting is missing or not a number.
C32_DelayBetweenRecords ==
    [][\A t \in Threads :
        /\ TakesNextRecord(t) => poll[t].sleeps = poll[t].i
        /\ (pc[t] = "poll_now" /\ pc'[t] = "poll_next") =>
              poll'[t].delay_seconds =
                 IF settings["poll_delay_seconds"] = <<>>
                    \/ ParseFloat(settings["poll_delay_seconds"][1]) = <<>>
                 THEN DefaultDelay
                 ELSE ParseFloat(settings["poll_delay_seconds"][1])[1]]_vars

(***************************************************************************)
(* The iterations of the background loop (polling.py lines 273-297).       *)
(***************************************************************************)
\* The step of l runs the callbacks of its iteration.
NotifyStep(l) == pc[l] = "callbacks" /\ pc'[l] # "callbacks"

\* What the invocations were given, in order.
Kinds(invocations) == [k \in 1..Len(invocations) |-> invocations[k].kind]

\* The invocations an iteration is to make: new events first, errors next.
ExpectedKinds(new_found, errors_found) ==
    (IF new_found THEN <<"new_events">> ELSE <<>>)
    \o (IF errors_found THEN <<"errors">> ELSE <<>>)

\* The index of the first invocation that raised, 0 when none did.
FirstRaised(invocations) ==
    IF \E k \in 1..Len(invocations) : invocations[k].raised
    THEN CHOOSE k \in 1..Len(invocations) :
            /\ invocations[k].raised
            /\ \A j \in 1..(k - 1) : ~invocations[j].raised
    ELSE 0

\* One poll_now per iteration, and no callback before it has finished: the
\* loop test leads to poll_now or to the thread's end, poll_now is entered
\* from the loop test only, the callbacks are reached from the end of
\* poll_now only, and invocations are recorded by the callbacks step only.
OneSyncThenCallbacks(l) ==
    /\ (pc[l] = "loop_test" /\ pc'[l] # pc[l]) => pc'[l] \in {"poll_now", "idle"}
    /\ (pc'[l] = "poll_now" /\ pc[l] # pc'[l]) => pc[l] = "loop_test"
    /\ (pc'[l] = "callbacks" /\ pc[l] # pc'[l]) =>
          /\ pc[l] \in {"poll_next", "poll_now"}
          /\ poll'[l].status \in {"done", "raised"}
          /\ poll'[l].status = "done" => poll[l].i = Len(poll[l].patents)
    /\ (notified'[l] # notified[l] /\ notified'[l] # <<>>) => NotifyStep(l)
    /\ (pc'[l] = "wait_begin" /\ pc[l] # pc'[l]) => NotifyStep(l)

\* C33 as stated: an iteration makes one poll_now; when it has returned,
\* the on-new-events callback is invoked if and only if new events were
\* found, then the on-errors callback if and only if errors were recorded,
\* then the interval wait begins; no callback runs before poll_now is over.
C33_IterationOrder ==
    [][\A l \in LoopThreads :
        /\ OneSyncThenCallbacks(l)
        /\ (NotifyStep(l) /\ poll[l].status = "done") =>
              /\ Kinds(notified'[l]) = ExpectedKinds(poll[l].new_events # <<>>,
                                                     poll[l].errors # <<>>)
              /\ pc'[l] = "wait_begin"]_vars

\* C33 amended: as C33, with each callback invoked only when one is set,
\* and with the sequence cut short by a callback that raises: up to the
\* first invocation that raised, the invocations are those expected, each
\* given the batch's new events or errors; when none raised they are all
\* made and the interval wait begins.
C33_IterationOrderWhenSet ==
    [][\A l \in LoopThreads :
        /\ OneSyncThenCallbacks(l)
        /\ (NotifyStep(l) /\ poll[l].status = "done") =>
              LET expected == ExpectedKinds(on_update /\ poll[l].new_events # <<>>,
                                            on_error /\ poll[l].errors # <<>>)
                  j == FirstRaised(notified'[l])
              IN /\ j = 0 => /\ Kinds(notified'[l]) = expected
                             /\ pc'[l] = "wait_begin"
                 /\ j # 0 => /\ j <= Len(expected)
                             /\ SubSeq(Kinds(notified'[l]), 1, j)
                                   = SubSeq(expected, 1, j)
                 /\ \A k \in 1..Len(notified'[l]) :
                       LET n == notified'[l][k]
                       IN /\ n.kind = "new_events" =>
                                /\ n.callback = "on_update"
                                /\ n.count = Len(poll[l].new_events)
                          /\ n.kind = "errors" =>
                                /\ n.callback = "on_error"
                                /\ n.count = Len(poll[l].errors)]_vars

\* C33 witness: an iteration over two records, one synchronized with a new
\* event and one failed, has invoked on_update and then on_error, neither
\* raised, and is about to begin its interval wait.
C33_Witness ==
    \E l \in LoopThreads :
        /\ pc[l] = "wait_begin"
        /\ Kinds(notified[l]) = <<"new_events", "errors">>
        /\ FirstRaised(notified[l]) = 0

(***************************************************************************)
(* Exceptions inside a loop iteration (polling.py lines 279-297).          *)
(***************************************************************************)
\* The iteration of l whose callbacks step this is had an exception raised
\* by poll_now or by the on_update callback.
IterationRaised(l) ==
    \/ poll[l].status = "raised"
    \/ /\ notified'[l] # <<>>
       /\ notified'[l][1].callback = "on_update"
       /\ notified'[l][1].raised

\* The invocations that report an exception of the iteration.
Reports(invocations) ==
    {k \in 1..Len(invocations) : invocations[k].kind = "polling_error"}

\* C39: an exception raised in an iteration by poll_now or by the on_update
\* callback does not end the background loop.  It is reported by exactly
\* one on_error invocation when on_error is set, and by none otherwise; the
\* iteration goes on to its interval wait; and a loop thread ends at its
\* loop test with the flag down and nowhere else, so that the next
\* iteration runs poll_now again unless the service was stopped.
C39_LoopSurvivesExceptions ==
    [][\A l \in LoopThreads :
        /\ (NotifyStep(l) /\ IterationRaised(l)) =>
              /\ Cardinality(Reports(notified'[l])) = IF on_error THEN 1 ELSE 0
              /\ \A k \in 1..Len(notified'[l]) :
                    notified'[l][k].kind # "errors"
              /\ pc'[l] = "wait_begin"
        /\ (pc[l] = "loop_test" /\ pc'[l] # pc[l] /\ running) =>
              pc'[l] = "poll_now"
        /\ (pc'[l] = "idle" /\ pc[l] # "idle") =>
              pc[l] = "loop_test" /\ ~running]_vars

(***************************************************************************)
(* Cooperative cancellation (polling.py lines 191-196 and 240-297).        *)
(***************************************************************************)
\* C34: stop() interrupts no batch.  The call changes the flag and nothing
\* of a loop thread or of the store; a loop thread inside a batch can take
\* its next step whether the flag is up or down, never ends there, and
\* leaves the batch only when every record of it was processed, each one
\* synchronized with its record write done or failed with an error entry;
\* a loop thread ends only outside a batch.
C34_StopIsCooperative ==
    /\ [](\A l \in LoopThreads : InPoll(l) => ENABLED LoopThreadStep(l))
    /\ [][/\ Calls("stop") =>
              /\ running' = FALSE
              /\ UNCHANGED <<store, upd, poll, wait, notified>>
              /\ \A l \in LoopThreads : pc'[l] = pc[l]
          /\ \A l \in LoopThreads :
              /\ (InPoll(l) /\ poll'[l].status # "running") =>
                    /\ poll[l].i = Len(poll[l].patents)
                    /\ Len(poll[l].errors) + poll[l].sleeps = Len(poll[l].patents)
                    /\ pc'[l] = "callbacks"
              /\ (InPoll(l) /\ Returns(l)) => upd[l].writes = 1
              /\ InPoll(l) => pc'[l] # "idle"]_vars

\* C34 witness: stop() has returned, its join having timed out, while a
\* loop thread was inside a batch over two records; with the flag down the
\* thread went on to the last record of the batch and has just written it.
C34_Witness ==
    /\ last.op = "stop" /\ last.result # <<>>
    /\ ~running /\ thread = <<>>
    /\ \E l \in LoopThreads :
          /\ InPoll(l)
          /\ Len(poll[l].patents) = 2 /\ poll[l].i = 2
          /\ pc[l] = "add_event" /\ upd[l].writes = 1

(***************************************************************************)
(* Term adjustment in the record write (polling.py lines 62-76).           *)
(***************************************************************************)
AdjustmentNames == {"pta_total_days", "expiration_date"}

\* The record write of t carries the term-adjustment fields of the payload
\* its synchronization fetched, and the expiration date computed from the
\* filing date of its metadata and the adjustment days.
CarriesAdjustment(t) ==
    /\ AdjustmentNames \subseteq DOMAIN upd[t].update_fields
    /\ upd[t].payload["adjustment"] # <<>>
    /\ upd[t].update_fields["pta_total_days"]
          = upd[t].payload["adjustment"][1].pta_total_days
    /\ upd[t].update_fields["expiration_date"]
          = calculate_expiration_date(upd[t].metadata[1].filing_date,
                                      upd[t].update_fields["pta_total_days"])

\* The record write of t carries neither, and the record's row keeps the
\* values it had.
RetainsAdjustment(t) ==
    /\ AdjustmentNames \cap DOMAIN upd[t].update_fields = {}
    /\ \A p \in patents, q \in patents' :
          (p.id = q.id /\ p.application_number = upd[t].app_num) =>
              \A c \in AdjustmentNames : q.cols[c] = p.cols[c]

\* C35 as stated: when the term-adjustment fetch of a synchronization
\* succeeded, its record write carries the term-adjustment fields and the
\* computed expiration date; when the fetch failed, the write carries
\* neither and the stored values are retained.
C35_AdjustmentInWrite ==
    [][\A t \in Threads :
        WritesRecord(t) =>
            IF "adjustment" \in Succeeded(t)
            THEN CarriesAdjustment(t)
            ELSE RetainsAdjustment(t)]_vars

\* C35 amended: the write carries the term-adjustment fields and the
\* computed expiration date when the fetch succeeded with adjustment data;
\* when the fetch failed, or succeeded with no data (not found, an empty
\* payload), the write carries neither and the stored values are retained.
C35_AdjustmentInWriteWhenData ==
    [][\A t \in Threads :
        WritesRecord(t) =>
            IF /\ "adjustment" \in Succeeded(t)
               /\ upd[t].payload["adjustment"] # <<>>
            THEN CarriesAdjustment(t)
            ELSE RetainsAdjustment(t)]_vars

\* C35 witness: a synchronization whose term-adjustment fetch failed has
\* made its write, and the record's row still holds the adjustment days
\* and the expiration date that an earlier synchronization stored.
C35_Witness ==
    \E t \in Threads :
        /\ pc[t] = "add_event" /\ upd[t].writes = 1
        /\ "adjustment" \in upd[t].failed
        /\ \E p \in patents :
              /\ p.application_number = upd[t].app_num
              /\ p.cols.pta_total_days = <<1>>
              /\ p.cols.expiration_date # <<>>

(***************************************************************************)
(* Concurrent ingestion of one event fact (add_event, database.py lines    *)
(* 352-367; polling.py lines 132-142).                                     *)
(***************************************************************************)
\* The synchronization by t has ingested the k-th of its parsed events.
Ingested(t, k) == upd[t].status = "running" /\ k \in 1..upd[t].i

\* It reported that event as new.
ReportedNew(t, k) ==
    \E j \in 1..Len(upd[t].new_events) : upd[t].new_events[j] = upd[t].events[k]

\* The two events are one fact: the same code and date.
SameFact(e, f) == e.event_code = f.event_code /\ e.event_date = f.event_date

\* C36: when two synchronizations of one record run at once and both have
\* ingested the same event fact, the ledger holds exactly one row for it
\* and at most one of the two has reported it new; the ingestion step that
\* finds no row for the fact (the fact was unseen) stores one row and
\* reports it new, the step that finds a row stores nothing and reports
\* nothing, so that exactly one execution reports an unseen fact.
C36_ConcurrentIngestOnce ==
    /\ [](\A t1, t2 \in Threads :
            (t1 # t2 /\ upd[t1].patent_id = upd[t2].patent_id) =>
                \A k1 \in 1..Len(upd[t1].events), k2 \in 1..Len(upd[t2].events) :
                    (/\ Ingested(t1, k1) /\ Ingested(t2, k2)
                     /\ SameFact(upd[t1].events[k1], upd[t2].events[k2])) =>
                        /\ Len(EventKeyRows(events, upd[t1].patent_id,
                                            upd[t1].events[k1].event_code,
                                            upd[t1].events[k1].event_date)) = 1
                        /\ ~(ReportedNew(t1, k1) /\ ReportedNew(t2, k2)))
    /\ [][\A t \in Threads :
            (/\ pc[t] = "add_event" /\ upd'[t].i = upd[t].i + 1
             /\ \E t2 \in Threads \ {t} :
                    /\ upd[t2].status = "running"
                    /\ upd[t2].patent_id = upd[t].patent_id) =>
                LET e == upd[t].events[upd'[t].i]
                    rows == EventKeyRows(events, upd[t].patent_id,
                                         e.event_code, e.event_date)
                IN IF rows = <<>>
                   THEN /\ Len(events') = Len(events) + 1
                        /\ upd'[t].new_events = Append(upd[t].new_events, e)
                   ELSE /\ events' = events
                        /\ upd'[t].new_events = upd[t].new_events]_vars

(***************************************************************************)
(* Referential integrity (get_connection, database.py lines 22-27;         *)
(* remove_patent, lines 250-273; add_event; polling.py lines 78-142).      *)
(***************************************************************************)
\* The record of the synchronization by t is no longer tracked.
RecordGone(t) == upd[t].status = "running" /\ upd[t].patent_id \notin PatentIds

\* C37: every event, continuity, document and assignment row references a
\* tracked record, in every reachable state, a record removed while its
\* synchronization is in flight included: for a removed record an event
\* insert stores nothing and is reported not new, and a snapshot write
\* stores nothing, its failure staying inside its optional block.
C37_NoOrphanRows ==
    /\ [](/\ \A k \in 1..Len(events) : events[k].patent_id \in PatentIds
          /\ \A k \in 1..Len(continuity) : continuity[k].patent_id \in PatentIds
          /\ \A k \in 1..Len(documents) : documents[k].patent_id \in PatentIds
          /\ \A k \in 1..Len(assignments) :
                assignments[k].patent_id \in PatentIds)
    /\ [][\A t \in Threads :
            RecordGone(t) =>
                /\ UNCHANGED <<events, continuity, documents, assignments>>
                /\ (pc[t] = "add_event" /\ upd'[t].i = upd[t].i + 1) =>
                      upd'[t].new_events = upd[t].new_events
                /\ (pc[t] \in DOMAIN AfterBlock /\ pc'[t] # pc[t]) =>
                      /\ pc'[t] = AfterBlock[pc[t]]
                      /\ upd'[t].status = "running"]_vars

\* C37 witness: the record was removed while its synchronization was in
\* flight; the continuity snapshot was fetched but its write failed inside
\* its block, the parsed event was then offered to the ledger and reported
\* not new, and no table holds a row.
C37_Witness ==
    \E t \in Threads :
        /\ RecordGone(t)
        /\ "continuity" \in DOMAIN upd[t].payload
        /\ "continuity" \in upd[t].failed
        /\ pc[t] = "add_event"
        /\ upd[t].i = 1 /\ upd[t].new_events = <<>>
        /\ events = <<>> /\ continuity = <<>>

(***************************************************************************)
(* The set of tracked records (polling.py lines 51-148, update_patent).    *)
(***************************************************************************)
\* The tracked records: the id and the application number of every row.
TrackedRecords == {Identity(p) : p \in patents}

\* The step is one of a synchronization or of a batch by t.
SyncStep(t) == upd'[t] # upd[t] \/ poll'[t] # poll[t]

\* C38 as stated: no step of a synchronization or of a batch creates a
\* record, deletes one or changes an identifier, the write for a record
\* that was removed after the synchronization began included: it changes
\* no row.  The set of tracked records changes in add_patent and
\* remove_patent calls only.
C38_SyncKeepsTrackedSet ==
    [][/\ \A t \in Threads :
            /\ SyncStep(t) => TrackedRecords' = TrackedRecords
            /\ (WritesRecord(t) /\ RecordGone(t)) => patents' = patents
       /\ TrackedRecords' # TrackedRecords =>
            \/ Calls("add_patent")
            \/ Calls("remove_patent")]_vars

\* C38 amended: as C38, but the write for a record removed after the
\* synchronization began changes no row only while no record has its
\* application number; when the application was added again meanwhile,
\* the write changes the fields of that new record and of no other.
C38_SyncKeepsTrackedSetByNumber ==
    [][/\ \A t \in Threads :
            /\ SyncStep(t) => TrackedRecords' = TrackedRecords
            /\ (WritesRecord(t) /\ RecordGone(t)) =>
                  /\ \A p \in patents :
                        p.application_number # upd[t].app_num => p \in patents'
                  /\ (\A p \in patents : p.application_number # upd[t].app_num)
                        => patents' = patents
       /\ TrackedRecords' # TrackedRecords =>
            \/ Calls("add_patent")
            \/ Calls("remove_patent")]_vars

\* C38 witness: a synchronization has made its record write after its
\* record was removed, and no record is tracked.
C38_Witness ==
    \E t \in Threads :
        /\ RecordGone(t)
        /\ pc[t] = "add_event" /\ upd[t].writes = 1
        /\ patents = {}
        /\ last.op = "remove_patent"

=============================================================================
